---- MODULE Spec2Model ----
(***************************************************************************)
(* Model of native_host/ytdlp_host.py: the native messaging host that      *)
(* asks yt-dlp for a video's formats and computes per-resolution sizes.    *)
(*                                                                         *)
(* Values of a JSON field are tagged records [t, v]:                       *)
(*   t = "none"  the field is absent or null                               *)
(*   t = "int"   a Python int, v is the integer                            *)
(*   t = "float" a Python float, v is the value in units of 1/Denom        *)
(*   t = "str"   a string holding a number, v in units of 1/Denom          *)
(*   t = "bad"   a string holding no number                                *)
(* JSON numbers are finite, so int(v) of a number never raises. Float      *)
(* arithmetic is modelled exactly (rationals with denominator Denom).      *)
(***************************************************************************)
EXTENDS Integers, Sequences, FiniteSets, TLC

VARIABLES
  call, ret, prev,                    \* a function called on its own
  pc,                                 \* position in main()
  req, url, duration_hint,            \* the request and what main() reads of it
  meta, j_err, j_code,                \* result of run_ytdlp_dump_json
  sizes_by_h, video_only_by_id,       \* result of compute_sizes_from_json_all
  s, v, a251, dur_sec,                \* s144 .. s1440_400, v144 .. v1440_400
  f_err, f_code, d_err, d_code,       \* results of the -F and duration calls
  calls,                              \* the yt-dlp processes run, in order
  sent                                \* the messages written to stdout

harness == <<call, ret, prev>>
mainvars == <<pc, req, url, duration_hint, meta, j_err, j_code, sizes_by_h,
              video_only_by_id, s, v, a251, dur_sec, f_err, f_code, d_err, d_code,
              calls, sent>>
vars == <<harness, mainvars>>

(* ---------------------------------------------------------------------- *)
(* Bounds                                                                  *)
(* ---------------------------------------------------------------------- *)
Denom == 4
MaxTracks == 2
MaxFormats == 2
MaxLines == 2
MaxEntries == 2

(* ---------------------------------------------------------------------- *)
(* Values                                                                  *)
(* ---------------------------------------------------------------------- *)
None == [t |-> "none", v |-> 0]
PyInt(n) == [t |-> "int", v |-> n]
PyFloat(n) == [t |-> "float", v |-> n]
PyStr(n) == [t |-> "str", v |-> n]
PyBad == [t |-> "bad", v |-> 0]

\* the value of a number in units of 1/Denom
FP(x) == IF x.t = "int" THEN x.v * Denom ELSE x.v

\* a / b truncated toward zero (b > 0), as Python's int() truncates a float
TruncDiv(a, b) == IF a >= 0 THEN a \div b ELSE -((-a) \div b)

\* isinstance(v, (int, float))
IsNumber(x) == x.t \in {"int", "float"}

\* int(v) for a number v
ToInt(x) == PyInt(TruncDiv(FP(x), Denom))

\* a format dictionary of yt-dlp; f.get(k) of a missing key is None
Track(id, vc, ac, ext, h, fps, fs, fa, tbr, vbr, abr) ==
  [format_id |-> id, vcodec |-> vc, acodec |-> ac, ext |-> ext, height |-> h,
   fps |-> fps, filesize |-> fs, filesize_approx |-> fa, tbr |-> tbr,
   vbr |-> vbr, abr |-> abr]

(* ---------------------------------------------------------------------- *)
(* Size estimator                                                          *)
(* ---------------------------------------------------------------------- *)
\* float(val), None when val is None or float() raises
_get_num(val) ==
  CASE val.t = "none" -> None
    [] val.t = "bad" -> None
    [] OTHER -> PyFloat(FP(val))

\* a seeded fault: the first of tbr, vbr, abr that converts to a number
FirstKbpsAnySign(fmt) ==
  LET ks == <<_get_num(fmt.tbr), _get_num(fmt.vbr), _get_num(fmt.abr)>>
      ok == {i \in 1..3 : ks[i].t # "none"}
  IN IF ok = {} THEN None
     ELSE ks[CHOOSE i \in ok : \A j \in ok : i <= j]

\* the first of tbr, vbr, abr that converts to a number > 0
FirstKbps(fmt) ==
  LET ks == <<_get_num(fmt.tbr), _get_num(fmt.vbr), _get_num(fmt.abr)>>
      ok == {i \in 1..3 : ks[i].t # "none" /\ ks[i].v > 0}
  IN IF ok = {} THEN None
     ELSE ks[CHOOSE i \in ok : \A j \in ok : i <= j]

\* a seeded fault: the estimate rounded to the nearest integer
BitrateBytesRounded(kbps, duration_sec) ==
  PyInt((2 * kbps.v * 125 * duration_sec.v + Denom) \div (2 * Denom))

\* int((kbps * 1000.0 / 8.0) * float(duration_sec))
BitrateBytes(kbps, duration_sec) ==
  PyInt(TruncDiv(kbps.v * 125 * duration_sec.v, Denom))

\* a seeded fault: the approximate size is tried before the exact one
FilesizeApproxFirst(fmt, duration_sec) ==
  IF IsNumber(fmt.filesize_approx) THEN ToInt(fmt.filesize_approx)
  ELSE IF IsNumber(fmt.filesize) THEN ToInt(fmt.filesize)
  ELSE LET kbps == FirstKbps(fmt)
       IN IF duration_sec.t # "none" /\ duration_sec.v # 0 /\ kbps.t # "none"
          THEN BitrateBytes(kbps, duration_sec)
          ELSE None

_filesize_from_fmt(fmt, duration_sec) ==
  IF IsNumber(fmt.filesize) THEN ToInt(fmt.filesize)
  ELSE IF IsNumber(fmt.filesize_approx) THEN ToInt(fmt.filesize_approx)
  ELSE LET kbps == FirstKbps(fmt)
       IN IF duration_sec.t # "none" /\ duration_sec.v # 0 /\ kbps.t # "none"
          THEN BitrateBytes(kbps, duration_sec)
          ELSE None

(* ---------------------------------------------------------------------- *)
(* Track selection by height                                               *)
(* ---------------------------------------------------------------------- *)
\* (s or '').lower() of a codec or extension field; "" is an absent field
Lower(str) ==
  CASE str = "NONE" -> "none"
    [] str = "Opus" -> "opus"
    [] OTHER -> str

\* isinstance(h, int) and h > 0
HasHeight(f) == f.height.t = "int" /\ f.height.v > 0

\* ytdlp_host.py:424-429, the video-only formats that carry a height
IsVideoOnly(f) ==
  /\ Lower(f.vcodec) # "none"
  /\ Lower(f.acodec) = "none"
  /\ HasHeight(f)

\* ytdlp_host.py:471-476, the progressive formats that carry a height
IsProgressive(f) ==
  /\ Lower(f.vcodec) # "none"
  /\ Lower(f.acodec) # "none"
  /\ HasHeight(f)

\* x or 0 of an optional number, in units of 1/Denom
OrZero(x) == IF x.t = "none" THEN 0 ELSE FP(x)

\* key1, key2, key3, keyp1, keyp2, keyp3: (has, tbr, fps)
RankKey(f, duration_sec) ==
  <<IF _filesize_from_fmt(f, duration_sec).t # "none" THEN 1 ELSE 0,
    OrZero(_get_num(f.tbr)),
    OrZero(f.fps)>>

\* tuple comparison a >= b
KeyGeq(a, b) ==
  \/ a[1] > b[1]
  \/ a[1] = b[1] /\ a[2] > b[2]
  \/ a[1] = b[1] /\ a[2] = b[2] /\ a[3] >= b[3]

\* a seeded fault: the candidates are not sorted, the first one is taken
FirstUnsorted(cands, duration_sec) == cands[1]

\* a seeded fault: of the candidates whose key is maximal the last is taken
LastBest(cands, duration_sec) ==
  LET top == {i \in 1..Len(cands) : \A j \in 1..Len(cands) :
                KeyGeq(RankKey(cands[i], duration_sec), RankKey(cands[j], duration_sec))}
  IN cands[CHOOSE i \in top : \A j \in top : i >= j]

\* sorted(cands, key=key, reverse=True)[0]: the sort is stable, also when
\* reversed, so the head is the first candidate whose key is maximal
FirstBest(cands, duration_sec) ==
  LET top == {i \in 1..Len(cands) : \A j \in 1..Len(cands) :
                KeyGeq(RankKey(cands[i], duration_sec), RankKey(cands[j], duration_sec))}
  IN cands[CHOOSE i \in top : \A j \in top : i <= j]

Heights(pool) == {pool[i].height.v : i \in 1..Len(pool)}
MaxOf(S) == CHOOSE x \in S : \A y \in S : x >= y
MinOf(S) == CHOOSE x \in S : \A y \in S : x <= y

Picked(best, duration_sec) ==
  [fmt |-> <<best>>, size |-> _filesize_from_fmt(best, duration_sec)]
NothingPicked == [fmt |-> <<>>, size |-> None]

\* a seeded fault: the nearest height above is tried before the one below
NarrowAboveFirst(pool, target_h) ==
  LET hs == Heights(pool)
      below == {h \in hs : h < target_h}
      above == {h \in hs : h > target_h}
      AtHeight(h) == LET Test(f) == f.height.v = h IN SelectSeq(pool, Test)
  IN IF target_h \in hs THEN AtHeight(target_h)
     ELSE IF above # {} THEN AtHeight(MinOf(above))
     ELSE IF below # {} THEN AtHeight(MaxOf(below))
     ELSE <<>>

\* exact, else the candidates at the largest height below, else those at the
\* smallest height above (ytdlp_host.py:432, 442-446, 454-457)
Narrow(pool, target_h) ==
  LET hs == Heights(pool)
      below == {h \in hs : h < target_h}
      above == {h \in hs : h > target_h}
      AtHeight(h) == LET Test(f) == f.height.v = h IN SelectSeq(pool, Test)
  IN IF target_h \in hs THEN AtHeight(target_h)
     ELSE IF below # {} THEN AtHeight(MaxOf(below))
     ELSE IF above # {} THEN AtHeight(MinOf(above))
     ELSE <<>>

PickByHeight(pool, target_h, duration_sec) ==
  LET cands == Narrow(pool, target_h)
  IN IF cands = <<>> THEN NothingPicked
     ELSE Picked(FirstBest(cands, duration_sec), duration_sec)

_pick_video_by_height(formats, target_h, duration_sec) ==
  PickByHeight(SelectSeq(formats, IsVideoOnly), target_h, duration_sec)

_pick_progressive_by_height(formats, target_h, duration_sec) ==
  PickByHeight(SelectSeq(formats, IsProgressive), target_h, duration_sec)

(* ---------------------------------------------------------------------- *)
(* Audio selection                                                         *)
(* ---------------------------------------------------------------------- *)
\* 'opus' in ac and 'aac' in ac, over the codec names of the model
HasOpus(ac) == ac \in {"opus"}
HasAac(ac) == ac \in {"aac"}

\* ytdlp_host.py:381-385
IsAudioOnly(f) == Lower(f.vcodec) = "none" /\ Lower(f.acodec) # "none"

\* a seeded fault: each signal outweighs all the later ones together
AudioScoreByOrder(f, duration_sec) ==
  <<(IF HasOpus(Lower(f.acodec)) THEN 8 ELSE 0)
      + (IF Lower(f.ext) = "webm" THEN 4 ELSE 0)
      + (IF HasAac(Lower(f.acodec)) \/ Lower(f.ext) = "m4a" THEN 2 ELSE 0)
      + (IF _filesize_from_fmt(f, duration_sec).t # "none" THEN 1 ELSE 0),
    OrZero(_get_num(f.abr))>>

\* score(f): (s, abr or 0.0)
AudioScore(f, duration_sec) ==
  <<(IF HasOpus(Lower(f.acodec)) THEN 3 ELSE 0)
      + (IF Lower(f.ext) = "webm" THEN 1 ELSE 0)
      + (IF HasAac(Lower(f.acodec)) \/ Lower(f.ext) = "m4a" THEN 2 ELSE 0)
      + (IF _filesize_from_fmt(f, duration_sec).t # "none" THEN 2 ELSE 0),
    OrZero(_get_num(f.abr))>>

ScoreGeq(a, b) == a[1] > b[1] \/ (a[1] = b[1] /\ a[2] >= b[2])

\* max(cands, key=score): the first candidate whose score is maximal
_pick_audio(formats, duration_sec) ==
  LET cands == SelectSeq(formats, IsAudioOnly)
      top == {i \in 1..Len(cands) : \A j \in 1..Len(cands) :
                ScoreGeq(AudioScore(cands[i], duration_sec),
                         AudioScore(cands[j], duration_sec))}
  IN IF cands = <<>> THEN NothingPicked
     ELSE Picked(cands[CHOOSE i \in top : \A j \in top : i <= j], duration_sec)

(* ---------------------------------------------------------------------- *)
(* compute_sizes_from_json_all                                             *)
(* ---------------------------------------------------------------------- *)
\* heights, with the keys of sizes and video_only each pair writes
HeightTable ==
  <<[h |-> 144, fid |-> "394", s |-> "s144p", v |-> "v394"],
    [h |-> 240, fid |-> "395", s |-> "s240p", v |-> "v395"],
    [h |-> 360, fid |-> "396", s |-> "s360p", v |-> "v396"],
    [h |-> 480, fid |-> "397", s |-> "s480p", v |-> "v397"],
    [h |-> 720, fid |-> "398", s |-> "s720p", v |-> "v398"],
    [h |-> 1080, fid |-> "399", s |-> "s1080p", v |-> "v399"],
    [h |-> 1440, fid |-> "400", s |-> "s1440p", v |-> "v400"]>>

ResKeys == {HeightTable[i].s : i \in 1..Len(HeightTable)}
VideoKeys == {HeightTable[i].v : i \in 1..Len(HeightTable)} \cup {"v299", "v303", "v308"}

\* a dictionary read with .get(): a missing key reads None
NoSizes == [k \in ResKeys |-> None]
NoVideoOnly == [k \in VideoKeys |-> None]

\* int(float(d)) of the document's duration, None when absent or not a number
DocDuration(doc) ==
  IF _get_num(doc.duration).t = "none" THEN None
  ELSE PyInt(TruncDiv(_get_num(doc.duration).v, Denom))

\* isinstance(hint, int) and hint > 0
ValidHint(hint) == hint.t = "int" /\ hint.v > 0

\* a seeded fault: a valid hint overrides the document's duration
DurationHintFirst(doc, hint) ==
  IF ValidHint(hint) THEN hint ELSE DocDuration(doc)

\* ytdlp_host.py:554-564
DurationOf(doc, hint) ==
  IF DocDuration(doc).t = "none" /\ ValidHint(hint) THEN hint
  ELSE DocDuration(doc)

\* the first format whose format_id is fid, <<>> when there is none
fmt_by_id(doc, fid) ==
  LET hits == {i \in 1..Len(doc.formats) : doc.formats[i].format_id = fid}
  IN IF hits = {} THEN <<>>
     ELSE <<doc.formats[CHOOSE i \in hits : \A j \in hits : i <= j]>>

PositiveNumber(x) == IsNumber(x) /\ FP(x) > 0

\* size_for(f)
size_for(f) ==
  IF f = <<>> THEN None
  ELSE IF PositiveNumber(f[1].filesize) THEN ToInt(f[1].filesize)
  ELSE IF PositiveNumber(f[1].filesize_approx) THEN ToInt(f[1].filesize_approx)
  ELSE None

\* a seeded fault: the audio size reported is the shared one, that of the
\* selected audio-only track when track 251 has none
A251SizeShared(doc, duration_sec) ==
  IF size_for(fmt_by_id(doc, "251")).t # "none" THEN size_for(fmt_by_id(doc, "251"))
  ELSE _pick_audio(doc.formats, duration_sec).size

\* ytdlp_host.py:585
A251Size(doc, duration_sec) == size_for(fmt_by_id(doc, "251"))

\* ytdlp_host.py:585-590, audio_b
AudioSize(doc, duration_sec) ==
  IF A251Size(doc, duration_sec).t # "none" THEN A251Size(doc, duration_sec)
  ELSE _pick_audio(doc.formats, duration_sec).size

\* a seeded fault: the canonical-id lookup estimates from the bitrate too
VideoOnlySizeEstimated(doc, row, duration_sec) ==
  LET f == fmt_by_id(doc, row.fid)
      v_exact_b == IF f = <<>> THEN None ELSE _filesize_from_fmt(f[1], duration_sec)
  IN IF v_exact_b.t = "none"
     THEN _pick_video_by_height(doc.formats, row.h, duration_sec).size
     ELSE v_exact_b

\* a seeded fault: without a size under the canonical id the size is unknown
VideoOnlySizeExactOnly(doc, row, duration_sec) == size_for(fmt_by_id(doc, row.fid))

\* ytdlp_host.py:599-604, v_b
VideoOnlySize(doc, row, duration_sec) ==
  LET v_exact_b == size_for(fmt_by_id(doc, row.fid))
  IN IF v_exact_b.t = "none"
     THEN _pick_video_by_height(doc.formats, row.h, duration_sec).size
     ELSE v_exact_b

\* a seeded fault: the progressive size is added to the audio size
CombinedWithProgressive(v_b, audio_b, p_b) ==
  IF v_b.t # "none" /\ audio_b.t # "none" THEN PyInt(v_b.v + audio_b.v)
  ELSE IF p_b.t # "none" /\ audio_b.t # "none" THEN PyInt(p_b.v + audio_b.v)
  ELSE p_b

\* ytdlp_host.py:611-617; p_b is the size of the progressive pick
CombinedSize(v_b, audio_b, p_b) ==
  IF v_b.t # "none" /\ audio_b.t # "none" THEN PyInt(v_b.v + audio_b.v)
  ELSE p_b

\* a seeded fault: a variant id without a track falls back to the height search
VariantSizeByHeight(doc, fid, duration_sec) ==
  IF fmt_by_id(doc, fid) # <<>>
  THEN _filesize_from_fmt(fmt_by_id(doc, fid)[1], duration_sec)
  ELSE _pick_video_by_height(doc.formats, IF fid = "308" THEN 1440 ELSE 1080,
                             duration_sec).size

\* ytdlp_host.py:620-625
VariantSize(doc, fid, duration_sec) ==
  IF fmt_by_id(doc, fid) # <<>>
  THEN _filesize_from_fmt(fmt_by_id(doc, fid)[1], duration_sec)
  ELSE None

Row(key) == HeightTable[CHOOSE i \in 1..Len(HeightTable) :
                          HeightTable[i].s = key \/ HeightTable[i].v = key]

\* ytdlp_host.py:592-627, with duration_sec and audio_b resolved
SizesWith(doc, duration_sec, audio_b) ==
  [sizes |-> [k \in ResKeys |->
                CombinedSize(VideoOnlySize(doc, Row(k), duration_sec), audio_b,
                             _pick_progressive_by_height(doc.formats, Row(k).h,
                                                         duration_sec).size)],
   video_only |-> [k \in VideoKeys |->
                CASE k = "v299" -> VariantSize(doc, "299", duration_sec)
                  [] k = "v303" -> VariantSize(doc, "303", duration_sec)
                  [] k = "v308" -> VariantSize(doc, "308", duration_sec)
                  [] OTHER -> VideoOnlySize(doc, Row(k), duration_sec)],
   a251_b |-> A251Size(doc, duration_sec),
   duration_sec |-> duration_sec]

\* ytdlp_host.py:583-590, with duration_sec resolved
ComputeWith(doc, duration_sec) ==
  SizesWith(doc, duration_sec, AudioSize(doc, duration_sec))

\* meta['entries']: has is FALSE when the key is absent or its value is not
\* a list; list holds the entries, JSON objects (documents) or other values
NoEntries == [has |-> FALSE, list |-> <<>>]
EntryList(list) == [has |-> TRUE, list |-> list]

\* an entry that is not a JSON object
NonDictEntry == [type |-> "null", truthy |-> FALSE, formats |-> <<>>, duration |-> None,
                 entries |-> NoEntries]

\* isinstance(e, dict) and e.get('formats')
EntryWithFormats(e) == e.type = "dict" /\ e.formats # <<>>

\* a seeded fault: a container without a usable entry resolves to nothing
UnwrapOrFail(doc) ==
  LET es == doc.entries.list
      hits == {i \in 1..Len(es) : EntryWithFormats(es[i])}
  IN IF ~doc.entries.has THEN doc
     ELSE IF hits # {} THEN es[CHOOSE i \in hits : \A j \in hits : i <= j]
     ELSE IF es # <<>> /\ es[1].type = "dict" THEN es[1]
     ELSE [doc EXCEPT !.formats = <<>>, !.duration = None]

\* ytdlp_host.py:541-552: the document the rest of the function reads
Unwrap(doc) ==
  LET es == doc.entries.list
      hits == {i \in 1..Len(es) : EntryWithFormats(es[i])}
  IN IF ~doc.entries.has \/ es = <<>> THEN doc
     ELSE IF hits # {} THEN es[CHOOSE i \in hits : \A j \in hits : i <= j]
     ELSE IF es[1].type = "dict" THEN es[1]
     ELSE doc

\* ytdlp_host.py:554-627, for the document resolved
ComputeDoc(doc, hint) == ComputeWith(doc, DurationOf(doc, hint))

\* the tuple (sizes, video_only, a251_b, duration_sec) as a record
compute_sizes_from_json_all(doc, hint) ==
  IF doc.type # "dict"
  THEN [sizes |-> NoSizes, video_only |-> NoVideoOnly, a251_b |-> None,
        duration_sec |-> None]
  ELSE ComputeDoc(Unwrap(doc), hint)

(* ---------------------------------------------------------------------- *)
(* Format list parser                                                      *)
(* ---------------------------------------------------------------------- *)
\* A line of the -F listing is [id, size]: id is the group ID_RE captures at
\* the start of the line ("" when it does not match), size is the first token
\* SIZE_RE finds, [t |-> unit, v |-> number in 1/Denom], or None.
Line(id, size) == [id |-> id, size |-> size]
SizeTok(n, unit) == [t |-> unit, v |-> n]

ListIds == {"394", "395", "396", "397", "398", "399", "400", "299", "303", "308", "251"}

Factor(unit) ==
  CASE unit = "KiB" -> 1024
    [] unit = "MiB" -> 1024 * 1024
    [] unit = "GiB" -> 1024 * 1024 * 1024
    [] unit = "TiB" -> 1024 * 1024 * 1024 * 1024

\* a seeded fault: a line of a known id without a size token resets the id
ParseLineOverwriting(line, sizes) ==
  IF line.id = "" THEN sizes
  ELSE IF line.id \notin DOMAIN sizes THEN sizes
  ELSE IF line.size.t = "none" THEN [sizes EXCEPT ![line.id] = None]
  ELSE [sizes EXCEPT ![line.id] =
          PyInt(TruncDiv(line.size.v * Factor(line.size.t), Denom))]

\* one iteration of the loop over text.splitlines()
ParseLine(line, sizes) ==
  IF line.id = "" THEN sizes
  ELSE IF line.id \notin DOMAIN sizes THEN sizes
  ELSE IF line.size.t = "none" THEN sizes
  ELSE [sizes EXCEPT ![line.id] =
          PyInt(TruncDiv(line.size.v * Factor(line.size.t), Denom))]

RECURSIVE ParseLines(_, _)
ParseLines(lines, sizes) ==
  IF lines = <<>> THEN sizes
  ELSE ParseLines(Tail(lines), ParseLine(Head(lines), sizes))

parse_sizes_from_format_list(text) == ParseLines(text, [k \in ListIds |-> None])

(* ---------------------------------------------------------------------- *)
(* Humanizers                                                              *)
(* ---------------------------------------------------------------------- *)
Units == <<"B", "KB", "MB", "GB", "TB">>

\* x / d rounded to the nearest integer, halves to even, as "%.2f" rounds
RoundDiv(x, d) ==
  LET q == x \div d
      r == x % d
  IN IF 2 * r < d THEN q
     ELSE IF 2 * r > d THEN q + 1
     ELSE IF q % 2 = 0 THEN q ELSE q + 1

\* the number of divisions by 1000 the while loop makes
RECURSIVE UnitIndex(_, _)
UnitIndex(n, i) ==
  IF n >= 1000 /\ i < Len(Units) - 1 THEN UnitIndex(n \div 1000, i + 1) ELSE i

RECURSIVE Pow10(_)
Pow10(k) == IF k = 0 THEN 1 ELSE 10 * Pow10(k - 1)

\* humanize_bytes(n) for an int n >= 0: the text "<hundredths / 100> <unit>",
\* with no decimals for B
humanize_bytes(n) ==
  IF n.t = "none" THEN [unit |-> "N/A", hundredths |-> 0]
  ELSE LET i == UnitIndex(n.v, 0)
       IN IF i = 0 THEN [unit |-> Units[1], hundredths |-> 100 * n.v]
          ELSE [unit |-> Units[i + 1], hundredths |-> RoundDiv(n.v, Pow10(3 * i - 2))]

\* humanize_duration(seconds) for an int or None: the numbers of the text,
\* <<h, m, sec>> for "h:mm:ss" when h > 0 and <<m, sec>> for "m:ss"; <<>> is None
humanize_duration(seconds) ==
  IF seconds.t = "none" THEN <<>>
  ELSE IF seconds.v \div 3600 > 0
    THEN <<seconds.v \div 3600, (seconds.v % 3600) \div 60, seconds.v % 60>>
  ELSE <<(seconds.v % 3600) \div 60, seconds.v % 60>>

(* ---------------------------------------------------------------------- *)
(* main(): the state of one run of the host                                *)
(* ---------------------------------------------------------------------- *)
SNames == {"s144", "s240", "s360", "s480", "s720", "s1080", "s1440",
           "s1080_299", "s1080_303", "s1080_399", "s1440_308", "s1440_400"}
ResNames == {"s144", "s240", "s360", "s480", "s720", "s1080", "s1440"}
VNames == {"v144", "v240", "v360", "v480", "v720", "v1080", "v1440",
           "v1080_299", "v1080_303", "v1080_399", "v1440_308", "v1440_400"}

\* ytdlp_host.py:709-721
MainLocals ==
  /\ s = [k \in SNames |-> None]
  /\ v = [k \in VNames |-> None]
  /\ a251 = None
  /\ dur_sec = None
  /\ f_err = "" /\ f_code = None
  /\ d_err = "" /\ d_code = None

\* main() has not been entered
MainIdle ==
  /\ pc = "idle"
  /\ req = <<>> /\ url = "" /\ duration_hint = None
  /\ meta = <<>> /\ j_err = "" /\ j_code = None
  /\ sizes_by_h = NoSizes /\ video_only_by_id = NoVideoOnly
  /\ MainLocals
  /\ calls = <<>>
  /\ sent = <<>>

(* ---------------------------------------------------------------------- *)
(* Specification of the size estimator alone                               *)
(* ---------------------------------------------------------------------- *)
EstFilesize == {None, PyFloat(0), PyFloat(5 * Denom + 1), PyFloat(-(5 * Denom + 1)),
                PyStr(7 * Denom), PyInt(1000000)}
EstApprox == {None, PyInt(2000000), PyFloat(3 * Denom + 1)}
EstTbr == {None, PyInt(0), PyInt(2000), PyFloat(2 * Denom - 1), PyFloat(-Denom), PyBad}
EstVbr == {None, PyInt(1000), PyStr(3 * Denom)}
EstAbr == {None, PyInt(128)}
EstDuration == {None, PyInt(0), PyInt(1), PyInt(180)}

EstFormats ==
  {Track("398", "av01", "none", "mp4", PyInt(720), PyInt(30), fs, fa, tbr, vbr, abr) :
     fs \in EstFilesize, fa \in EstApprox, tbr \in EstTbr, vbr \in EstVbr,
     abr \in EstAbr}

NoCall == [fn |-> "", fmt |-> <<>>, formats |-> <<>>, target_h |-> 0,
           duration_sec |-> None]

InitEst ==
  /\ \E fmt \in EstFormats, d \in EstDuration :
       call = [NoCall EXCEPT !.fn = "_filesize_from_fmt", !.fmt = <<fmt>>,
                             !.duration_sec = d]
  /\ ret = <<>>
  /\ prev = <<>>
  /\ MainIdle

EstimateSize ==
  /\ call.fn = "_filesize_from_fmt"
  /\ ret = <<>>
  /\ ret' = <<_filesize_from_fmt(call.fmt[1], call.duration_sec)>>
  /\ UNCHANGED <<call, prev, mainvars>>

NextEst == EstimateSize

SpecEst == InitEst /\ [][NextEst]_vars

\* r is x / Denom truncated toward zero, stated without TruncDiv
IsTruncationOf(r, x) ==
  IF x >= 0 THEN r >= 0 /\ r * Denom <= x /\ x < (r + 1) * Denom
  ELSE r <= 0 /\ (-r) * Denom <= -x /\ -x < (1 - r) * Denom

\* x / Denom (x >= 0) rounded to the nearest integer, halves to even
RoundHalfEven(x) ==
  LET q == x \div Denom
      r == x % Denom
  IN IF 2 * r < Denom THEN q
     ELSE IF 2 * r > Denom THEN q + 1
     ELSE IF q % 2 = 0 THEN q ELSE q + 1

EstReturned == call.fn = "_filesize_from_fmt" /\ ret # <<>>

\* C1: a track whose filesize is a number gets exactly that number, truncated
\* to an integer, whatever filesize_approx, tbr, vbr, abr and the duration are.
C1_ExactSizePrecedence ==
  (EstReturned /\ IsNumber(call.fmt[1].filesize)) =>
    /\ ret[1].t = "int"
    /\ IsTruncationOf(ret[1].v, FP(call.fmt[1].filesize))

C1_Witness ==
  /\ EstReturned
  /\ call.fmt[1].filesize = PyFloat(5 * Denom + 1)
  /\ call.fmt[1].filesize_approx = PyInt(2000000)
  /\ call.fmt[1].tbr = PyInt(2000)
  /\ call.duration_sec = PyInt(180)
  /\ ret[1] = PyInt(5)

\* the case of C2: no size field, a total bitrate k > 0, a duration d > 0
BitrateCase ==
  /\ EstReturned
  /\ ~IsNumber(call.fmt[1].filesize)
  /\ ~IsNumber(call.fmt[1].filesize_approx)
  /\ IsNumber(call.fmt[1].tbr) /\ FP(call.fmt[1].tbr) > 0
  /\ call.duration_sec.t = "int" /\ call.duration_sec.v > 0

\* C2 as claimed: the estimate is round(k * 1000 / 8 * d), the nearest integer.
C2_Claimed_Rounded ==
  BitrateCase =>
    ret[1] = PyInt(RoundHalfEven(FP(call.fmt[1].tbr) * 125 * call.duration_sec.v))

\* C2 as amended: the estimate is k * 1000 / 8 * d truncated to an integer
\* (k = 2000, d = 180 gives 45,000,000).
C2_BitrateEstimateTruncated ==
  BitrateCase =>
    /\ ret[1].t = "int"
    /\ IsTruncationOf(ret[1].v, FP(call.fmt[1].tbr) * 125 * call.duration_sec.v)

C2_Witness ==
  /\ BitrateCase
  /\ call.fmt[1].tbr = PyFloat(2 * Denom - 1)
  /\ call.duration_sec = PyInt(1)
  /\ ret[1].v * Denom # FP(call.fmt[1].tbr) * 125

(* ---------------------------------------------------------------------- *)
(* Specification of the track selectors alone                              *)
(* ---------------------------------------------------------------------- *)
SeqsUpTo(S, n) == UNION {[1..k -> S] : k \in 0..n}

\* (filesize, tbr, fps) of the candidate tracks
PickSizes == {<<None, None, None>>,
              <<PyInt(1000), None, None>>,
              <<PyInt(2000), None, None>>,
              <<None, PyInt(1000), PyInt(30)>>}
PickHeights == {360, 720, 1080}
PickTargets == {144, 480, 720}
PickDurations == {None, PyInt(10)}

PickTracks ==
  {Track("137", "avc1", "none", "mp4", PyInt(h), c[3], c[1], None, c[2], None, None) :
     h \in PickHeights, c \in PickSizes}
  \cup
  {Track("22", "avc1", "mp4a", "mp4", PyInt(h), c[3], c[1], None, c[2], None, None) :
     h \in PickHeights, c \in PickSizes}
  \cup
  {Track("251", "none", "opus", "webm", None, None, PyInt(500), None, None, None, None),
   Track("136", "avc1", "NONE", "mp4", None, None, PyInt(3000), None, None, None, None)}

InitPick ==
  /\ \E fn \in {"_pick_video_by_height", "_pick_progressive_by_height"},
        formats \in SeqsUpTo(PickTracks, MaxTracks),
        h \in PickTargets, d \in PickDurations :
       call = [NoCall EXCEPT !.fn = fn, !.formats = formats, !.target_h = h,
                             !.duration_sec = d]
  /\ ret = <<>>
  /\ prev = <<>>
  /\ MainIdle

PickVideo ==
  /\ call.fn = "_pick_video_by_height"
  /\ ret = <<>>
  /\ ret' = <<_pick_video_by_height(call.formats, call.target_h, call.duration_sec)>>
  /\ UNCHANGED <<call, prev, mainvars>>

PickProgressive ==
  /\ call.fn = "_pick_progressive_by_height"
  /\ ret = <<>>
  /\ ret' = <<_pick_progressive_by_height(call.formats, call.target_h,
                                          call.duration_sec)>>
  /\ UNCHANGED <<call, prev, mainvars>>

\* the caller passes the same tracks in another order and picks again
Reorder ==
  /\ call.fn \in {"_pick_video_by_height", "_pick_progressive_by_height"}
  /\ ret # <<>>
  /\ prev = <<>>
  /\ \E p \in Permutations(1..Len(call.formats)) :
       /\ \E i \in 1..Len(call.formats) : p[i] # i
       /\ call' = [call EXCEPT !.formats = [i \in 1..Len(call.formats) |->
                                              call.formats[p[i]]]]
  /\ prev' = ret
  /\ ret' = <<>>
  /\ UNCHANGED mainvars

NextPick == PickVideo \/ PickProgressive \/ Reorder

SpecPick == InitPick /\ [][NextPick]_vars

PickReturned ==
  /\ call.fn \in {"_pick_video_by_height", "_pick_progressive_by_height"}
  /\ ret # <<>>

\* the tracks of the requested kind that carry a height
PickCandidates ==
  {call.formats[i] : i \in
     {j \in 1..Len(call.formats) :
        IF call.fn = "_pick_video_by_height" THEN IsVideoOnly(call.formats[j])
        ELSE IsProgressive(call.formats[j])}}

Repicked == PickReturned /\ prev # <<>>

\* C8 as claimed: any permutation of the track list gives the same selected
\* track and the same size.
C8_Claimed_SameTrack == Repicked => ret[1] = prev[1]

\* C8 as amended: any permutation gives a track of the same height and the same
\* ranking key (has size, tbr, fps), and the same track and size unless two
\* distinct candidates of that height tie on the key, where input order decides.
C8_ReorderSameRank ==
  Repicked =>
    \/ ret[1] = prev[1]
    \/ /\ ret[1].fmt # <<>> /\ prev[1].fmt # <<>>
       /\ ret[1].fmt[1] # prev[1].fmt[1]
       /\ {ret[1].fmt[1], prev[1].fmt[1]} \subseteq PickCandidates
       /\ ret[1].fmt[1].height = prev[1].fmt[1].height
       /\ RankKey(ret[1].fmt[1], call.duration_sec)
            = RankKey(prev[1].fmt[1], call.duration_sec)

\* two candidates of one height with different keys, picked in both orders
C8_Witness ==
  /\ Repicked
  /\ ret[1] = prev[1]
  /\ ret[1].fmt # <<>>
  /\ \E c \in PickCandidates :
       /\ c # ret[1].fmt[1]
       /\ c.height = ret[1].fmt[1].height
       /\ RankKey(c, call.duration_sec) # RankKey(ret[1].fmt[1], call.duration_sec)

(* ---------------------------------------------------------------------- *)
(* main(): inputs                                                          *)
(* ---------------------------------------------------------------------- *)
GoodUrl == "https://www.youtube.com/watch?v=dQw4w9WgXcQ"
OtherUrl == "https://example.com/watch?v=dQw4w9WgXcQ"
\* GoodUrl followed by a NUL character, "\u0000" in the request's JSON
NulUrl == "https://www.youtube.com/watch?v=dQw4w9WgXcQ\\u0000"

\* over the URLs of the model: OtherUrl fails youtube_regex; NulUrl passes,
\* no pattern excludes the NUL and youtube_regex is not anchored at the end
is_valid_youtube_url(u) == u # "" /\ u \in {GoodUrl, NulUrl}

\* subprocess.run raises ValueError('embedded null byte') for such an argument
HasNul(u) == u = NulUrl

ReqHints == {None, PyInt(0), PyInt(200), PyFloat(90 * Denom + 1), PyBad}

\* what read_message() returns: a JSON object, or JSON of another type
Requests ==
  {[type |-> "dict", url |-> u, duration_hint |-> h] :
     u \in {"", GoodUrl, OtherUrl, NulUrl}, h \in ReqHints}
  \cup {[type |-> "list", url |-> "", duration_hint |-> None]}

\* ytdlp_host.py:690-698
ParseHint(dh) ==
  IF _get_num(dh).t = "none" THEN None
  ELSE IF TruncDiv(_get_num(dh).v, Denom) <= 0 THEN None
  ELSE PyInt(TruncDiv(_get_num(dh).v, Denom))

DocTracks ==
  {Track("398", "av01", "none", "mp4", PyInt(720), PyInt(30),
         PyInt(40000000), None, None, None, None),
   Track("398", "av01", "none", "mp4", PyInt(720), PyInt(30),
         None, None, PyInt(2000), None, None),
   Track("136", "avc1", "none", "mp4", PyInt(720), PyInt(30),
         PyInt(30000000), None, PyInt(3000), None, None),
   Track("299", "avc1", "none", "mp4", PyInt(1080), PyInt(60),
         None, PyInt(90000000), None, None, None),
   Track("299", "avc1", "none", "mp4", None, PyInt(60),
         PyInt(60000000), None, None, None, None),
   Track("394", "av01", "none", "mp4", PyInt(144), PyInt(30),
         None, None, None, None, None),
   Track("251", "none", "opus", "webm", None, None,
         PyInt(5000000), None, None, None, PyInt(128)),
   Track("140", "none", "mp4a.40.2", "m4a", None, None,
         PyInt(5000000), None, None, None, PyInt(128)),
   Track("18", "avc1", "mp4a.40.2", "mp4", PyInt(360), PyInt(30),
         PyInt(20000000), None, None, None, None)}

DocDurations == {None, PyInt(0), PyInt(180), PyFloat(180 * Denom + 1), PyBad}

\* json.loads(out): a JSON object with formats and a duration, {} or a list;
\* yt-dlp runs with --no-playlist and the object has no 'entries'
Doc(formats, duration) ==
  [type |-> "dict", truthy |-> TRUE, formats |-> formats, duration |-> duration,
   entries |-> NoEntries]
EmptyDoc == [type |-> "dict", truthy |-> FALSE, formats |-> <<>>, duration |-> None,
             entries |-> NoEntries]
ListDoc == [type |-> "list", truthy |-> TRUE, formats |-> <<>>, duration |-> None,
            entries |-> NoEntries]

Docs ==
  {Doc(f, d) : f \in SeqsUpTo(DocTracks, MaxFormats), d \in DocDurations}
  \cup {EmptyDoc, ListDoc}

NotFoundMsg == "yt-dlp not found in PATH. Please install yt-dlp."

\* str(e)[:300]
Truncated(str) == IF str = "stderr of 400 chars" THEN "stderr cut to 300 chars" ELSE str

\* what run_ytdlp_dump_json returns once yt-dlp was started
DumpResults ==
  {[meta |-> <<d>>, err |-> "", code |-> PyInt(0)] : d \in Docs}
  \cup
  {[meta |-> <<>>, err |-> NotFoundMsg, code |-> PyInt(127)],
   [meta |-> <<>>, err |-> "yt-dlp timed out while fetching metadata.",
    code |-> PyInt(124)],
   [meta |-> <<>>, err |-> "stderr of 400 chars", code |-> PyInt(1)],
   [meta |-> <<>>, err |-> "Failed to parse yt-dlp JSON", code |-> PyInt(1)]}

ListLines ==
  {Line("398", SizeTok(45 * Denom + 1, "MiB")),
   Line("398", None),
   Line("251", SizeTok(3 * Denom + 2, "MiB")),
   Line("399", SizeTok(80 * Denom, "MiB"))}

\* what run_ytdlp_list_formats returns: out is the text (a sequence of
\* lines, <<>> for ""), wrapped in a sequence that is empty for None
ListResults ==
  {[out |-> <<t>>, err |-> "", code |-> PyInt(0)] : t \in SeqsUpTo(ListLines, MaxLines)}
  \cup
  {[out |-> <<>>, err |-> NotFoundMsg, code |-> PyInt(127)],
   [out |-> <<>>, err |-> "yt-dlp timed out while listing formats.",
    code |-> PyInt(124)],
   [out |-> << <<Line("398", SizeTok(45 * Denom + 1, "MiB"))>> >>,
    err |-> "yt-dlp exited with code 1", code |-> PyInt(1)]}

\* what run_ytdlp_get_duration returns
DurationResults ==
  {[val |-> PyInt(240), err |-> "", code |-> PyInt(0)],
   [val |-> None, err |-> "", code |-> PyInt(0)],
   [val |-> None, err |-> NotFoundMsg, code |-> PyInt(127)],
   [val |-> None, err |-> "yt-dlp timed out while fetching duration.",
    code |-> PyInt(124)],
   [val |-> None, err |-> "yt-dlp exited with code 1", code |-> PyInt(1)]}

(* ---------------------------------------------------------------------- *)
(* main(): steps                                                           *)
(* ---------------------------------------------------------------------- *)
Plus(a, b) == PyInt(a.v + b.v)

\* a seeded fault: the combined size of a codec variant leaves the audio out
VariantVideoOnly(v_b, audio) ==
  IF audio.t # "none" THEN v_b ELSE None

\* ytdlp_host.py:747-751: (v + a251) if v is not None else None, under a251
VariantCombined(v_b, audio) ==
  IF audio.t # "none" /\ v_b.t # "none" THEN Plus(v_b, audio) ELSE None

\* a seeded fault: every size is looked at, the codec variants too
NoSizeAtAll(sz) == \A k \in SNames : sz[k].t = "none"

\* ytdlp_host.py:754: all(x is None for x in [s144, ..., s1440])
NeedFallback(sz) == \A k \in ResNames : sz[k].t = "none"

\* a seeded fault: the lookup is made whenever the duration is missing
NeedLookupIgnoringHint(dur, hint) == dur.t = "none"

\* ytdlp_host.py:786
NeedLookup(dur, hint) == dur.t = "none" /\ ~ValidHint(hint)

InitMain ==
  /\ call = NoCall /\ ret = <<>> /\ prev = <<>>
  /\ pc = "start"
  /\ req = <<>> /\ url = "" /\ duration_hint = None
  /\ meta = <<>> /\ j_err = "" /\ j_code = None
  /\ sizes_by_h = NoSizes /\ video_only_by_id = NoVideoOnly
  /\ MainLocals
  /\ calls = <<>>
  /\ sent = <<>>

\* read_message() returns None: main() returns without a response
NoRequest ==
  /\ pc = "start"
  /\ pc' = "exit"
  /\ UNCHANGED <<harness, req, url, duration_hint, meta, j_err, j_code, sizes_by_h,
                 video_only_by_id, s, v, a251, dur_sec, f_err, f_code, d_err,
                 d_code, calls, sent>>

\* ytdlp_host.py:685-704
ReadRequest ==
  /\ pc = "start"
  /\ \E r \in Requests :
       /\ req' = <<r>>
       /\ url' = (IF r.type = "dict" THEN r.url ELSE "")
       /\ duration_hint' = (IF r.type = "dict" THEN ParseHint(r.duration_hint) ELSE None)
       /\ IF url' = ""
          THEN /\ sent' = Append(sent, [ok |-> FALSE, error |-> <<"No URL provided.">>])
               /\ pc' = "done"
          ELSE /\ sent' = sent
               /\ pc' = "dump"
  /\ UNCHANGED <<harness, meta, j_err, j_code, sizes_by_h, video_only_by_id, s, v,
                 a251, dur_sec, f_err, f_code, d_err, d_code, calls>>

\* ytdlp_host.py:708 with 277-278: the URL guard answers without running yt-dlp
DumpRejected ==
  /\ pc = "dump"
  /\ ~is_valid_youtube_url(url)
  /\ meta' = <<>>
  /\ j_err' = "Invalid or unsafe YouTube URL"
  /\ j_code' = PyInt(1)
  /\ pc' = "compute"
  /\ UNCHANGED <<harness, req, url, duration_hint, sizes_by_h, video_only_by_id, s, v,
                 a251, dur_sec, f_err, f_code, d_err, d_code, calls, sent>>

\* a seeded fault: a dump that timed out is started again
DumpJsonRetrying ==
  /\ pc = "dump"
  /\ is_valid_youtube_url(url)
  /\ ~HasNul(url)
  /\ \E r \in DumpResults :
       /\ meta' = r.meta
       /\ j_err' = r.err
       /\ j_code' = r.code
       /\ calls' = Append(calls, [mode |-> "dump_json", url |-> url, code |-> r.code,
                                   val |-> None, listed |-> <<>>])
       /\ pc' = (IF r.code = PyInt(124) THEN "dump" ELSE "compute")
  /\ UNCHANGED <<harness, req, url, duration_hint, sizes_by_h, video_only_by_id, s, v,
                 a251, dur_sec, f_err, f_code, d_err, d_code, sent>>

\* ytdlp_host.py:708 with 280-302
DumpJson ==
  /\ pc = "dump"
  /\ is_valid_youtube_url(url)
  /\ ~HasNul(url)
  /\ \E r \in DumpResults :
       /\ meta' = r.meta
       /\ j_err' = r.err
       /\ j_code' = r.code
       /\ calls' = Append(calls, [mode |-> "dump_json", url |-> url, code |-> r.code,
                                   val |-> None, listed |-> <<>>])
  /\ pc' = "compute"
  /\ UNCHANGED <<harness, req, url, duration_hint, sizes_by_h, video_only_by_id, s, v,
                 a251, dur_sec, f_err, f_code, d_err, d_code, sent>>

\* ytdlp_host.py:708 with 282-288: subprocess.run raises an exception that
\* run_ytdlp_dump_json does not catch, and main() neither: the host ends with
\* a traceback and nothing is sent
DumpJsonRaises ==
  /\ pc = "dump"
  /\ is_valid_youtube_url(url)
  /\ HasNul(url)
  /\ pc' = "raised"
  /\ UNCHANGED <<harness, req, url, duration_hint, meta, j_err, j_code, sizes_by_h,
                 video_only_by_id, s, v, a251, dur_sec, f_err, f_code, d_err,
                 d_code, calls, sent>>

\* j_code == 0 and meta
HaveMeta == j_code = PyInt(0) /\ meta # <<>> /\ meta[1].truthy

\* ytdlp_host.py:724-751, r is what compute_sizes_from_json_all returned
TakeSizes(r) ==
  /\ sizes_by_h' = r.sizes
  /\ video_only_by_id' = r.video_only
  /\ dur_sec' = r.duration_sec
  /\ a251' = r.a251_b
  /\ v' = [k \in VNames |->
             CASE k = "v144" -> r.video_only["v394"]
               [] k = "v240" -> r.video_only["v395"]
               [] k = "v360" -> r.video_only["v396"]
               [] k = "v480" -> r.video_only["v397"]
               [] k = "v720" -> r.video_only["v398"]
               [] k = "v1080" -> r.video_only["v399"]
               [] k = "v1440" -> r.video_only["v400"]
               [] k = "v1080_299" -> r.video_only["v299"]
               [] k = "v1080_303" -> r.video_only["v303"]
               [] k = "v1080_399" -> r.video_only["v399"]
               [] k = "v1440_308" -> r.video_only["v308"]
               [] k = "v1440_400" -> r.video_only["v400"]]
  /\ s' = [k \in SNames |->
             CASE k = "s144" -> r.sizes["s144p"]
               [] k = "s240" -> r.sizes["s240p"]
               [] k = "s360" -> r.sizes["s360p"]
               [] k = "s480" -> r.sizes["s480p"]
               [] k = "s720" -> r.sizes["s720p"]
               [] k = "s1080" -> r.sizes["s1080p"]
               [] k = "s1440" -> r.sizes["s1440p"]
               [] k = "s1080_299" -> VariantCombined(r.video_only["v299"], r.a251_b)
               [] k = "s1080_303" -> VariantCombined(r.video_only["v303"], r.a251_b)
               [] k = "s1080_399" -> VariantCombined(r.video_only["v399"], r.a251_b)
               [] k = "s1440_308" -> VariantCombined(r.video_only["v308"], r.a251_b)
               [] k = "s1440_400" -> VariantCombined(r.video_only["v400"], r.a251_b)]

\* ytdlp_host.py:723-751
ComputeSizes ==
  /\ pc = "compute"
  /\ HaveMeta
  /\ TakeSizes(compute_sizes_from_json_all(meta[1], duration_hint))
  /\ pc' = "fallback"
  /\ UNCHANGED <<harness, req, url, duration_hint, meta, j_err, j_code, f_err, f_code,
                 d_err, d_code, calls, sent>>

\* ytdlp_host.py:723, the condition is false
SkipCompute ==
  /\ pc = "compute"
  /\ ~HaveMeta
  /\ pc' = "fallback"
  /\ UNCHANGED <<harness, req, url, duration_hint, meta, j_err, j_code, sizes_by_h,
                 video_only_by_id, s, v, a251, dur_sec, f_err, f_code, d_err,
                 d_code, calls, sent>>

\* (v + a251) if (v is not None and a251 is not None) else None
ListCombined(v_b, audio) ==
  IF v_b.t # "none" /\ audio.t # "none" THEN Plus(v_b, audio) ELSE None

\* ytdlp_host.py:759-783, sizes is what parse_sizes_from_format_list returned
TakeListed(sizes) ==
  /\ v' = [k \in VNames |->
             CASE k = "v144" -> sizes["394"]
               [] k = "v240" -> sizes["395"]
               [] k = "v360" -> sizes["396"]
               [] k = "v480" -> sizes["397"]
               [] k = "v720" -> sizes["398"]
               [] k = "v1080" -> sizes["399"]
               [] k = "v1440" -> sizes["400"]
               [] k = "v1080_299" -> sizes["299"]
               [] k = "v1080_303" -> sizes["303"]
               [] k = "v1080_399" -> sizes["399"]
               [] k = "v1440_308" -> sizes["308"]
               [] k = "v1440_400" -> sizes["400"]]
  /\ a251' = sizes["251"]
  /\ s' = [k \in SNames |->
             CASE k = "s144" -> ListCombined(sizes["394"], sizes["251"])
               [] k = "s240" -> ListCombined(sizes["395"], sizes["251"])
               [] k = "s360" -> ListCombined(sizes["396"], sizes["251"])
               [] k = "s480" -> ListCombined(sizes["397"], sizes["251"])
               [] k = "s720" -> ListCombined(sizes["398"], sizes["251"])
               [] k = "s1080" -> ListCombined(sizes["399"], sizes["251"])
               [] k = "s1440" -> ListCombined(sizes["400"], sizes["251"])
               [] k = "s1080_299" -> ListCombined(sizes["299"], sizes["251"])
               [] k = "s1080_303" -> ListCombined(sizes["303"], sizes["251"])
               [] k = "s1080_399" -> ListCombined(sizes["399"], sizes["251"])
               [] k = "s1440_308" -> ListCombined(sizes["308"], sizes["251"])
               [] k = "s1440_400" -> ListCombined(sizes["400"], sizes["251"])]

\* what a listing's output holds, for the log of the calls: nothing when out
\* is None or "", else the sizes parse_sizes_from_format_list reads from it
ListedIn(out) ==
  IF out # <<>> /\ out[1] # <<>> THEN <<parse_sizes_from_format_list(out[1])>>
  ELSE <<>>

\* a seeded fault: the listing is taken whenever there is output, whatever
\* the status
TakeListResultAnyStatus(r) ==
  /\ f_err' = r.err
  /\ f_code' = r.code
  /\ calls' = Append(calls, [mode |-> "list_formats", url |-> url, code |-> r.code,
                              val |-> None, listed |-> ListedIn(r.out)])
  /\ IF r.out # <<>> /\ r.out[1] # <<>>
     THEN TakeListed(parse_sizes_from_format_list(r.out[1]))
     ELSE UNCHANGED <<s, v, a251>>

\* what run_ytdlp_list_formats returned is taken when f_code == 0 and out
TakeListResult(r) ==
  /\ f_err' = r.err
  /\ f_code' = r.code
  /\ calls' = Append(calls, [mode |-> "list_formats", url |-> url, code |-> r.code,
                              val |-> None, listed |-> ListedIn(r.out)])
  /\ IF r.code = PyInt(0) /\ r.out # <<>> /\ r.out[1] # <<>>
     THEN TakeListed(parse_sizes_from_format_list(r.out[1]))
     ELSE UNCHANGED <<s, v, a251>>

\* ytdlp_host.py:754-783
ListFormats ==
  /\ pc = "fallback"
  /\ NeedFallback(s)
  /\ \E r \in ListResults : TakeListResult(r)
  /\ pc' = "duration"
  /\ UNCHANGED <<harness, req, url, duration_hint, meta, j_err, j_code, sizes_by_h,
                 video_only_by_id, dur_sec, d_err, d_code, sent>>

\* ytdlp_host.py:754, the condition is false
SkipListFormats ==
  /\ pc = "fallback"
  /\ ~NeedFallback(s)
  /\ pc' = "duration"
  /\ UNCHANGED <<harness, req, url, duration_hint, meta, j_err, j_code, sizes_by_h,
                 video_only_by_id, s, v, a251, dur_sec, f_err, f_code, d_err,
                 d_code, calls, sent>>

\* a seeded fault: the sizes are computed again with the duration looked up
FetchDurationRecomputing ==
  /\ pc = "duration"
  /\ NeedLookup(dur_sec, duration_hint)
  /\ \E r \in DurationResults :
       /\ d_err' = r.err
       /\ d_code' = r.code
       /\ calls' = Append(calls, [mode |-> "get_duration", url |-> url, code |-> r.code,
                                   val |-> r.val, listed |-> <<>>])
       /\ IF HaveMeta /\ r.val # None
          THEN TakeSizes(compute_sizes_from_json_all(meta[1], r.val))
          ELSE /\ dur_sec' = r.val
               /\ UNCHANGED <<sizes_by_h, video_only_by_id, s, v, a251>>
  /\ pc' = "respond"
  /\ UNCHANGED <<harness, req, url, duration_hint, meta, j_err, j_code, f_err, f_code,
                 sent>>

\* ytdlp_host.py:786-790
FetchDuration ==
  /\ pc = "duration"
  /\ NeedLookup(dur_sec, duration_hint)
  /\ \E r \in DurationResults :
       /\ dur_sec' = r.val
       /\ d_err' = r.err
       /\ d_code' = r.code
       /\ calls' = Append(calls, [mode |-> "get_duration", url |-> url, code |-> r.code,
                                   val |-> r.val, listed |-> <<>>])
  /\ pc' = "respond"
  /\ UNCHANGED <<harness, req, url, duration_hint, meta, j_err, j_code, sizes_by_h,
                 video_only_by_id, s, v, a251, f_err, f_code, sent>>

\* ytdlp_host.py:791-793
UseHint ==
  /\ pc = "duration"
  /\ ~NeedLookup(dur_sec, duration_hint)
  /\ dur_sec.t = "none" /\ ValidHint(duration_hint)
  /\ dur_sec' = duration_hint
  /\ pc' = "respond"
  /\ UNCHANGED <<harness, req, url, duration_hint, meta, j_err, j_code, sizes_by_h,
                 video_only_by_id, s, v, a251, f_err, f_code, d_err, d_code, calls,
                 sent>>

\* ytdlp_host.py:786-793, neither branch is taken
KeepDuration ==
  /\ pc = "duration"
  /\ ~NeedLookup(dur_sec, duration_hint)
  /\ ~(dur_sec.t = "none" /\ ValidHint(duration_hint))
  /\ pc' = "respond"
  /\ UNCHANGED <<harness, req, url, duration_hint, meta, j_err, j_code, sizes_by_h,
                 video_only_by_id, s, v, a251, dur_sec, f_err, f_code, d_err,
                 d_code, calls, sent>>

\* the keys of resp["bytes"] and the local each one reports
BytesOf ==
  [s144p |-> s["s144"], s240p |-> s["s240"], s360p |-> s["s360"],
   s480p |-> s["s480"], s720p |-> s["s720"], s1080p |-> s["s1080"],
   s1440p |-> s["s1440"],
   v394 |-> v["v144"], v395 |-> v["v240"], v396 |-> v["v360"], v397 |-> v["v480"],
   v398 |-> v["v720"], v399 |-> v["v1080"], v400 |-> v["v1440"],
   v299 |-> v["v1080_299"], v303 |-> v["v1080_303"], v308 |-> v["v1440_308"],
   s1080p_299 |-> s["s1080_299"], s1080p_303 |-> s["s1080_303"],
   s1080p_399 |-> s["s1080_399"], s1440p_308 |-> s["s1440_308"],
   s1440p_400 |-> s["s1440_400"],
   a251 |-> a251]

\* humanize_bytes(x) if x is not None else None
HumanOrNone(x) == IF x.t = "none" THEN <<>> ELSE <<humanize_bytes(x)>>

\* a seeded fault: resp["human"] with an entry for every field of resp["bytes"]
HumanOfEveryField ==
  [k \in DOMAIN BytesOf \cup {"duration"} |->
     IF k = "duration" THEN humanize_duration(dur_sec) ELSE HumanOrNone(BytesOf[k])]

\* resp["human"]
HumanOf ==
  [s144p |-> HumanOrNone(s["s144"]), s240p |-> HumanOrNone(s["s240"]),
   s360p |-> HumanOrNone(s["s360"]), s480p |-> HumanOrNone(s["s480"]),
   s720p |-> HumanOrNone(s["s720"]), s1080p |-> HumanOrNone(s["s1080"]),
   s1440p |-> HumanOrNone(s["s1440"]),
   s1080p_299 |-> HumanOrNone(s["s1080_299"]),
   s1080p_303 |-> HumanOrNone(s["s1080_303"]),
   s1080p_399 |-> HumanOrNone(s["s1080_399"]),
   s1440p_308 |-> HumanOrNone(s["s1440_308"]),
   s1440p_400 |-> HumanOrNone(s["s1440_400"]),
   duration |-> humanize_duration(dur_sec)]

\* a seeded fault: only the seven resolutions are looked at
HasAnyResolutionSize == \E k \in ResNames : s[k].t # "none"

\* ytdlp_host.py:798-801
has_any_size == \E k \in SNames : s[k].t # "none"

\* ytdlp_host.py:811-815: the captured errors, joined with "; "
ErrMsgs ==
  (IF j_err # "" THEN <<Truncated(j_err)>> ELSE <<>>)
  \o (IF f_err # "" /\ f_code.t # "none" THEN <<Truncated(f_err)>> ELSE <<>>)
  \o (IF d_err # "" /\ d_code \notin {None, PyInt(0)} THEN <<Truncated(d_err)>>
      ELSE <<>>)

\* a seeded fault: the timeout is looked at before the missing tool
FailureMessageTimeoutFirst ==
  IF j_code = PyInt(124) \/ f_code = PyInt(124)
    THEN <<"yt-dlp timed out while fetching data.">>
  ELSE IF j_code = PyInt(127) \/ f_code = PyInt(127) THEN <<NotFoundMsg>>
  ELSE IF ErrMsgs # <<>> THEN ErrMsgs
  ELSE <<"No size information could be determined from yt-dlp output.">>

\* ytdlp_host.py:802-817
FailureMessage ==
  IF j_code = PyInt(127) \/ f_code = PyInt(127) THEN <<NotFoundMsg>>
  ELSE IF j_code = PyInt(124) \/ f_code = PyInt(124)
    THEN <<"yt-dlp timed out while fetching data.">>
  ELSE IF ErrMsgs # <<>> THEN ErrMsgs
  ELSE <<"No size information could be determined from yt-dlp output.">>

SendFailure ==
  /\ pc = "respond"
  /\ ~has_any_size
  /\ sent' = Append(sent, [ok |-> FALSE, error |-> FailureMessage])
  /\ pc' = "done"
  /\ UNCHANGED <<harness, req, url, duration_hint, meta, j_err, j_code, sizes_by_h,
                 video_only_by_id, s, v, a251, dur_sec, f_err, f_code, d_err,
                 d_code, calls>>

\* ytdlp_host.py:819-864
SendSuccess ==
  /\ pc = "respond"
  /\ has_any_size
  /\ sent' = Append(sent, [ok |-> TRUE, bytes |-> BytesOf, human |-> HumanOf,
                           duration |-> dur_sec])
  /\ pc' = "done"
  /\ UNCHANGED <<harness, req, url, duration_hint, meta, j_err, j_code, sizes_by_h,
                 video_only_by_id, s, v, a251, dur_sec, f_err, f_code, d_err,
                 d_code, calls>>

Next ==
  \/ NoRequest
  \/ ReadRequest
  \/ DumpRejected
  \/ DumpJson
  \/ DumpJsonRaises
  \/ ComputeSizes
  \/ SkipCompute
  \/ ListFormats
  \/ SkipListFormats
  \/ FetchDuration
  \/ UseHint
  \/ KeepDuration
  \/ SendFailure
  \/ SendSuccess

Spec == InitMain /\ [][Next]_vars

(* ---------------------------------------------------------------------- *)
(* Properties of compute_sizes_from_json_all, as main() receives them      *)
(* ---------------------------------------------------------------------- *)
\* compute_sizes_from_json_all(meta, duration_hint) has just returned
Computed == pc = "fallback" /\ HaveMeta /\ meta[1].type = "dict"

Rows == {HeightTable[i] : i \in 1..Len(HeightTable)}

\* the positions of the tracks whose format_id is fid
Positions(fid) ==
  {i \in 1..Len(meta[1].formats) : meta[1].formats[i].format_id = fid}

HasTrack(fid) == Positions(fid) # {}

FirstTrack(fid) ==
  meta[1].formats[CHOOSE i \in Positions(fid) : \A j \in Positions(fid) : i <= j]

\* the document of C3: a video-only track 398 of height 720 and exact size
\* 40000000, and an audio-only track of exact size 5000000, nothing else
C3_Document ==
  /\ Computed
  /\ Len(meta[1].formats) = 2
  /\ \E i, j \in 1..2 :
       /\ i # j
       /\ IsVideoOnly(meta[1].formats[i])
       /\ meta[1].formats[i].format_id = "398"
       /\ meta[1].formats[i].height = PyInt(720)
       /\ meta[1].formats[i].filesize = PyInt(40000000)
       /\ IsAudioOnly(meta[1].formats[j])
       /\ meta[1].formats[j].filesize = PyInt(5000000)

\* C3 as claimed: for that document s720p is 45000000 and v398 is 40000000,
\* and the combined size of every other resolution is unknown.
C3_Claimed_OthersUnknown ==
  C3_Document =>
    /\ sizes_by_h["s720p"] = PyInt(45000000)
    /\ video_only_by_id["v398"] = PyInt(40000000)
    /\ \A k \in ResKeys \ {"s720p"} : sizes_by_h[k] = None

\* C3 as amended: for that document s720p is 45000000 and v398 is 40000000,
\* and every other resolution falls back to the same 720 track, so that all
\* seven combined sizes are 45000000 and all seven canonical video-only sizes
\* are 40000000; the variant sizes v299, v303, v308 are unknown.
C3_EndToEnd ==
  C3_Document =>
    /\ \A r \in Rows : /\ sizes_by_h[r.s] = PyInt(45000000)
                       /\ video_only_by_id[r.v] = PyInt(40000000)
    /\ \A k \in {"v299", "v303", "v308"} : video_only_by_id[k] = None

C3_Witness ==
  /\ C3_Document
  /\ sizes_by_h["s720p"] = PyInt(45000000)
  /\ sizes_by_h["s1080p"] = PyInt(45000000)
  /\ sizes_by_h["s144p"] = PyInt(45000000)

\* the shared audio size: that of track 251 when it has one, else that of
\* the audio-only track _pick_audio selects
SharedAudio ==
  IF a251 # None THEN a251 ELSE _pick_audio(meta[1].formats, dur_sec).size

ProgressiveAt(h) == _pick_progressive_by_height(meta[1].formats, h, dur_sec).size

Determinable(fid) ==
  HasTrack(fid) /\ _filesize_from_fmt(FirstTrack(fid), dur_sec) # None

\* C5 as claimed: when the track under the canonical id has a size by the
\* rules of the size estimator (the bitrate estimate included), the
\* video-only size of the resolution is that size.
C5_Claimed_EstimatorSize ==
  Computed =>
    \A r \in Rows :
      Determinable(r.fid) =>
        video_only_by_id[r.v] = _filesize_from_fmt(FirstTrack(r.fid), dur_sec)

\* the track under a canonical id reports a positive filesize or filesize_approx
ReportsSize(fid) ==
  /\ HasTrack(fid)
  /\ \/ PositiveNumber(FirstTrack(fid).filesize)
     \/ PositiveNumber(FirstTrack(fid).filesize_approx)

ReportedSize(fid) ==
  IF PositiveNumber(FirstTrack(fid).filesize)
  THEN PyInt(TruncDiv(FP(FirstTrack(fid).filesize), Denom))
  ELSE PyInt(TruncDiv(FP(FirstTrack(fid).filesize_approx), Denom))

\* C5 as amended: when the first track under the canonical id reports a
\* positive filesize, or else a positive filesize_approx, the video-only size
\* of the resolution is that number and the height search is not used; in
\* every other case, a track with only a bitrate included, the video-only
\* size is that of the track the height search selects.
C5_CanonicalIdFastPath ==
  Computed =>
    \A r \in Rows :
      IF ReportsSize(r.fid)
      THEN video_only_by_id[r.v] = ReportedSize(r.fid)
      ELSE video_only_by_id[r.v] =
             _pick_video_by_height(meta[1].formats, r.h, dur_sec).size

\* track 398 has only a bitrate, and the height search selects another track
C5_Witness ==
  /\ Computed
  /\ Determinable("398") /\ ~ReportsSize("398")
  /\ _filesize_from_fmt(FirstTrack("398"), dur_sec) = PyInt(45000000)
  /\ video_only_by_id["v398"] = PyInt(30000000)

\* the codec variants: the local of main() holding the video-only size, the
\* local holding the combined size, the id and the height
Variants ==
  {[v |-> "v1080_299", s |-> "s1080_299", fid |-> "299", h |-> 1080],
   [v |-> "v1080_303", s |-> "s1080_303", fid |-> "303", h |-> 1080],
   [v |-> "v1080_399", s |-> "s1080_399", fid |-> "399", h |-> 1080],
   [v |-> "v1440_308", s |-> "s1440_308", fid |-> "308", h |-> 1440],
   [v |-> "v1440_400", s |-> "s1440_400", fid |-> "400", h |-> 1440]}

\* the steps of a canonical id: the size under the id, else the height search
CanonicalSteps(fid, h) ==
  IF ReportsSize(fid) THEN ReportedSize(fid)
  ELSE _pick_video_by_height(meta[1].formats, h, dur_sec).size

\* C6 as claimed: the video-only size of every variant is resolved as that
\* of a canonical id, and its combined size is that size plus the shared
\* audio size whenever both are known.
C6_Claimed_LikeCanonical ==
  Computed =>
    \A x \in Variants :
      /\ v[x.v] = CanonicalSteps(x.fid, x.h)
      /\ (v[x.v] # None /\ SharedAudio # None) =>
           s[x.s] = PyInt(v[x.v].v + SharedAudio.v)

\* C6 as amended: 399 and 400 are the canonical ids of 1080 and 1440 and are
\* resolved as such; the size of 299, 303 and 308 is the size estimator's
\* (bitrate estimate included) for the first track under the id, and unknown
\* when the document has no such track, without a height search. The
\* combined size of a variant is its video-only size plus the size of track
\* 251, and unknown when either is unknown, whatever other audio is selected.
C6_CodecVariants ==
  Computed =>
    \A x \in Variants :
      /\ IF x.fid \in {"399", "400"} THEN v[x.v] = CanonicalSteps(x.fid, x.h)
         ELSE IF HasTrack(x.fid)
           THEN v[x.v] = _filesize_from_fmt(FirstTrack(x.fid), dur_sec)
           ELSE v[x.v] = None
      /\ IF v[x.v] # None /\ a251 # None
         THEN s[x.s] = PyInt(v[x.v].v + a251.v)
         ELSE s[x.s] = None

\* a variant and another audio track are sized, track 251 is not: the
\* combined size of the variant is unknown
C6_Witness ==
  /\ Computed
  /\ v["v1080_299"] = PyInt(90000000)
  /\ v["v1080_303"] = None
  /\ v["v1080"] = PyInt(90000000)
  /\ a251 = None /\ SharedAudio = PyInt(5000000)
  /\ s["s1080_299"] = None
  /\ s["s1080"] = PyInt(95000000)

(* ---------------------------------------------------------------------- *)
(* Properties of main()                                                    *)
(* ---------------------------------------------------------------------- *)
Called(mode) == \E i \in 1..Len(calls) : calls[i].mode = mode

\* main() is past the decision of line 754
PastFallback == pc \in {"duration", "respond"} \/ (pc = "done" /\ url # "")

\* the structured path gave no combined size for any of the seven resolutions
StructuredGaveNothing == \A k \in ResKeys : sizes_by_h[k] = None

\* C9: the listing is asked for exactly when the structured path left all
\* seven per-resolution combined sizes unknown, be it that the dump failed,
\* timed out, was not decodable or carried no size.
C9_FallbackTrigger ==
  PastFallback =>
    /\ Called("list_formats") <=> StructuredGaveNothing
    /\ ~HaveMeta => Called("list_formats")

\* the dump succeeded and sized a codec variant, yet none of the seven
\* resolutions: the listing was asked for
C9_Witness ==
  /\ PastFallback
  /\ HaveMeta
  /\ StructuredGaveNothing
  /\ video_only_by_id["v299"] # None /\ a251 # None
  /\ Called("list_formats")

\* main() is past the duration of lines 786-793
PastDuration == pc = "respond" \/ (pc = "done" /\ url # "")

\* the duration the document declares, in whole seconds
Declared ==
  IF HaveMeta /\ meta[1].type = "dict" /\ IsNumber(meta[1].duration)
  THEN PyInt(TruncDiv(FP(meta[1].duration), Denom))
  ELSE None

\* the hint of the request, None when it was discarded
Hint ==
  LET dh == req[1].duration_hint
  IN IF IsNumber(dh) /\ TruncDiv(FP(dh), Denom) > 0
     THEN PyInt(TruncDiv(FP(dh), Denom))
     ELSE None

LookedUp == calls[Len(calls)].val

\* C10: the duration is the one the document declares when it declares one;
\* otherwise the hint when it is positive (a hint that is not a number or not
\* positive is discarded); otherwise what the duration lookup returned. The
\* lookup is made only when the document declared none and no hint is valid.
C10_DurationOrder ==
  PastDuration =>
    /\ duration_hint = Hint
    /\ Called("get_duration") <=> (Declared = None /\ Hint = None)
    /\ dur_sec = (IF Declared # None THEN Declared
                  ELSE IF Hint # None THEN Hint
                  ELSE LookedUp)

\* a declared duration wins over a valid hint, and no lookup is made
C10_Witness ==
  /\ PastDuration
  /\ Declared = PyInt(180) /\ Hint = PyInt(200)
  /\ dur_sec = PyInt(180)
  /\ ~Called("get_duration")

\* main() has answered a request that carried a URL
Answered == pc = "done" /\ url # "" /\ sent # <<>>

Response == sent[Len(sent)]

\* C11: a request with a URL is answered with a failure exactly when every
\* per-resolution and every codec-variant combined size is unknown after both
\* paths; otherwise with a success that reports each local as it is, the
\* unknown ones as null, whatever the duration is.
C11_FailureIffNoSize ==
  Answered =>
    /\ Len(sent) = 1
    /\ Response.ok = FALSE <=> (\A k \in SNames : s[k] = None)
    /\ Response.ok =>
         /\ \A k \in SNames : s[k] = None \/ s[k].t = "int"
         /\ Response.bytes = BytesOf
         /\ Response.duration = dur_sec

\* a success with one codec-variant size only, and no duration
C11_Witness ==
  /\ Answered
  /\ Response.ok
  /\ \A k \in ResNames : s[k] = None
  /\ Response.bytes.s1080p_299 # None
  /\ Response.bytes.s720p = None
  /\ Response.duration = None

Failed == Answered /\ ~Response.ok

\* the status the dump and the listing returned, None for a call not made
DumpStatus == j_code
ListStatus == f_code

\* the error strings captured from the dump, the listing and the duration
\* lookup, in this order, each cut to 300 characters
Captured ==
  (IF j_err # "" THEN <<Truncated(j_err)>> ELSE <<>>)
  \o (IF f_code # None /\ f_err # "" THEN <<Truncated(f_err)>> ELSE <<>>)
  \o (IF d_code \notin {None, PyInt(0)} /\ d_err # "" THEN <<Truncated(d_err)>>
      ELSE <<>>)

\* C12: the failure message is the tool-not-found message when the dump or
\* the listing returned 127, even if the other returned 124; otherwise the
\* timeout message when one of them returned 124; otherwise the captured
\* error strings, each cut to 300 characters, joined; and the generic message
\* when none was captured.
C12_MessagePriority ==
  Failed =>
    /\ (DumpStatus = PyInt(127) \/ ListStatus = PyInt(127)) =>
         Response.error = <<NotFoundMsg>>
    /\ (/\ DumpStatus # PyInt(127) /\ ListStatus # PyInt(127)
        /\ (DumpStatus = PyInt(124) \/ ListStatus = PyInt(124))) =>
         Response.error = <<"yt-dlp timed out while fetching data.">>
    /\ (/\ DumpStatus \notin {PyInt(127), PyInt(124)}
        /\ ListStatus \notin {PyInt(127), PyInt(124)}) =>
         /\ Captured # <<>> => Response.error = Captured
         /\ Captured = <<>> =>
              Response.error =
                <<"No size information could be determined from yt-dlp output.">>
    /\ \A i \in 1..Len(Response.error) : Response.error[i] # "stderr of 400 chars"

\* the dump timed out and the listing did not find the tool
C12_Witness ==
  /\ Failed
  /\ DumpStatus = PyInt(124) /\ ListStatus = PyInt(127)
  /\ Response.error = <<NotFoundMsg>>

\* C13 as claimed: yt-dlp is never started, in any of its three modes, on a
\* URL that is_valid_youtube_url rejects.
C13_Claimed_UrlGuard ==
  \A i \in 1..Len(calls) : is_valid_youtube_url(calls[i].url)

Succeeded == Answered /\ Response.ok

\* the keys of the combined sizes in resp["bytes"]
CombinedFields ==
  {"s144p", "s240p", "s360p", "s480p", "s720p", "s1080p", "s1440p",
   "s1080p_299", "s1080p_303", "s1080p_399", "s1440p_308", "s1440p_400"}

\* C14 as claimed: the human mapping of a success response has an entry for
\* every size field of the bytes mapping (the s, the v and the a251 keys) and
\* the humanized duration.
C14_Claimed_EveryField ==
  Succeeded =>
    /\ DOMAIN Response.bytes \subseteq DOMAIN Response.human
    /\ "duration" \in DOMAIN Response.human

\* C14 as amended: the human mapping has an entry for each of the twelve
\* combined sizes (seven resolutions, five codec variants), null when the size
\* is unknown and its humanized text otherwise, and the humanized duration; it
\* has no entry for the video-only sizes and for a251, which the bytes
\* mapping carries.
C14_HumanMapping ==
  Succeeded =>
    /\ DOMAIN Response.human = CombinedFields \cup {"duration"}
    /\ DOMAIN Response.bytes =
         CombinedFields \cup {"a251"}
         \cup {"v394", "v395", "v396", "v397", "v398", "v399", "v400",
               "v299", "v303", "v308"}
    /\ \A k \in CombinedFields :
         Response.human[k] =
           (IF Response.bytes[k] = None THEN <<>>
            ELSE <<humanize_bytes(Response.bytes[k])>>)
    /\ Response.human.duration = humanize_duration(Response.duration)

C14_Witness ==
  /\ Succeeded
  /\ Response.bytes.s720p = PyInt(45000000)
  /\ Response.human.s720p = <<[unit |-> "MB", hundredths |-> 4500]>>
  /\ Response.bytes.v398 = PyInt(40000000)
  /\ Response.bytes.a251 = PyInt(5000000)
  /\ Response.human.s1080p_303 = <<>>
  /\ Response.human.duration = <<3, 0>>

(* ---------------------------------------------------------------------- *)
(* Specification of the audio selector alone                               *)
(* ---------------------------------------------------------------------- *)
\* (acodec, ext) of the audio-only tracks
AudioKinds == {<<"opus", "webm">>, <<"vorbis", "webm">>, <<"aac", "m4a">>,
               <<"mp4a.40.2", "m4a">>, <<"ac3", "mka">>}

\* (filesize, abr)
AudioSizes == {<<None, None>>, <<PyInt(500), PyInt(128)>>, <<None, PyInt(160)>>}

AudioTracks ==
  {Track("a", "none", k[1], k[2], None, None, z[1], None, None, None, z[2]) :
     k \in AudioKinds, z \in AudioSizes}
  \cup
  {Track("18", "avc1", "mp4a.40.2", "mp4", PyInt(360), PyInt(30), PyInt(900), None,
         None, None, None)}

InitAudio ==
  /\ \E formats \in SeqsUpTo(AudioTracks, MaxTracks), d \in PickDurations :
       call = [NoCall EXCEPT !.fn = "_pick_audio", !.formats = formats,
                             !.duration_sec = d]
  /\ ret = <<>>
  /\ prev = <<>>
  /\ MainIdle

PickAudio ==
  /\ call.fn = "_pick_audio"
  /\ ret = <<>>
  /\ ret' = <<_pick_audio(call.formats, call.duration_sec)>>
  /\ UNCHANGED <<call, prev, mainvars>>

NextAudio == PickAudio

SpecAudio == InitAudio /\ [][NextAudio]_vars

AudioReturned == call.fn = "_pick_audio" /\ ret # <<>>

\* the positions of the audio-only tracks in the list given
AudioPositions ==
  {i \in 1..Len(call.formats) :
     call.formats[i].vcodec = "none" /\ call.formats[i].acodec # "none"}

\* the signals of a track, numbered in the order of preference claimed:
\* 1 Opus codec, 2 webm container, 3 AAC codec or m4a container, 4 a size
Signals(f) ==
  (IF f.acodec = "opus" THEN {1} ELSE {})
  \cup (IF f.ext = "webm" THEN {2} ELSE {})
  \cup (IF f.acodec = "aac" \/ f.ext = "m4a" THEN {3} ELSE {})
  \cup (IF _filesize_from_fmt(f, call.duration_sec) # None THEN {4} ELSE {})

\* C15 as claimed: a candidate whose only signal comes earlier in the order
\* is chosen over a candidate whose only signal comes later, so that the
\* track chosen is never one with a single signal while another candidate has
\* a single, earlier signal.
C15_Claimed_PreferenceOrder ==
  (AudioReturned /\ ret[1].fmt # <<>>) =>
    \A i \in AudioPositions :
      \A a, b \in 1..4 :
        (Signals(call.formats[i]) = {a} /\ Signals(ret[1].fmt[1]) = {b}) => a >= b

\* the points the code gives: 3 for Opus, 1 for webm, 2 for AAC or m4a, 2 for
\* a determinable size
Points(f) ==
  (IF 1 \in Signals(f) THEN 3 ELSE 0) + (IF 2 \in Signals(f) THEN 1 ELSE 0)
  + (IF 3 \in Signals(f) THEN 2 ELSE 0) + (IF 4 \in Signals(f) THEN 2 ELSE 0)

AbrOf(f) == IF f.abr = None THEN 0 ELSE FP(f.abr)

\* track f ranks strictly above track g
Outranks(f, g) ==
  Points(f) > Points(g) \/ (Points(f) = Points(g) /\ AbrOf(f) > AbrOf(g))

\* C15 as amended: the signals weigh 3 (Opus), 1 (webm), 2 (AAC or m4a) and
\* 2 (determinable size) and add up; the audio-only track with the highest sum
\* is chosen, equal sums are broken by the higher audio bitrate, and what
\* remains equal by the position in the list, the first winning. A track that
\* is only webm therefore loses to one that is only AAC/m4a or only sized.
C15_AudioRanking ==
  AudioReturned =>
    /\ AudioPositions = {} <=> ret[1].fmt = <<>>
    /\ AudioPositions # {} =>
         \E i \in AudioPositions :
           /\ ret[1].fmt = <<call.formats[i]>>
           /\ ret[1].size = _filesize_from_fmt(call.formats[i], call.duration_sec)
           /\ \A j \in AudioPositions : ~Outranks(call.formats[j], call.formats[i])
           /\ \A j \in AudioPositions :
                j < i => Outranks(call.formats[i], call.formats[j])

\* a track that is only webm loses to a track that is only m4a
C15_Witness ==
  /\ AudioReturned
  /\ Len(call.formats) = 2
  /\ Signals(call.formats[1]) = {2}
  /\ Signals(call.formats[2]) = {3}
  /\ ret[1].fmt = <<call.formats[2]>>

(* ---------------------------------------------------------------------- *)
(* Ranking inside the pool of one height                                   *)
(* ---------------------------------------------------------------------- *)
\* the positions of the candidates that have the height of the track selected
PoolPositions ==
  {i \in 1..Len(call.formats) :
     /\ call.formats[i] \in PickCandidates
     /\ call.formats[i].height = ret[1].fmt[1].height}

HasSizeOf(f) == IF _filesize_from_fmt(f, call.duration_sec) # None THEN 1 ELSE 0
TbrOf(f) == IF f.tbr \in {None, PyBad} THEN 0 ELSE FP(f.tbr)
FpsOf(f) == IF f.fps = None THEN 0 ELSE FP(f.fps)

\* f is strictly above g in the order (has size, tbr, fps)
RanksAbove(f, g) ==
  \/ HasSizeOf(f) > HasSizeOf(g)
  \/ HasSizeOf(f) = HasSizeOf(g) /\ TbrOf(f) > TbrOf(g)
  \/ HasSizeOf(f) = HasSizeOf(g) /\ TbrOf(f) = TbrOf(g) /\ FpsOf(f) > FpsOf(g)

NoSizeField ==
  /\ EstReturned
  /\ call.fmt[1].filesize = None
  /\ call.fmt[1].filesize_approx = None

\* x is a strictly positive bitrate
PositiveRate(x) == x.t \in {"int", "float", "str"} /\ FP(x) > 0

\* the first strictly positive of total, video and audio bitrate, in units
\* of 1/Denom kbps; 0 when none is positive
SourceRate ==
  IF PositiveRate(call.fmt[1].tbr) THEN FP(call.fmt[1].tbr)
  ELSE IF PositiveRate(call.fmt[1].vbr) THEN FP(call.fmt[1].vbr)
  ELSE IF PositiveRate(call.fmt[1].abr) THEN FP(call.fmt[1].abr)
  ELSE 0

\* C17 as claimed: without a size field the estimate rests on the first
\* strictly positive of total, video and audio bitrate, and the result is
\* none exactly when no bitrate is positive or the duration is unknown.
C17_Claimed_NoneIffUnknown ==
  NoSizeField =>
    /\ ret[1] = None <=> (SourceRate = 0 \/ call.duration_sec = None)
    /\ ret[1] # None =>
         IsTruncationOf(ret[1].v, SourceRate * 125 * call.duration_sec.v)

\* C17 as amended: without a size field the estimate rests on the first
\* strictly positive of total, video and audio bitrate (a zero, negative or
\* non-numeric value is skipped), and the result is none exactly when no
\* bitrate is positive or the duration is unknown or zero.
C17_BitrateSource ==
  NoSizeField =>
    /\ ret[1] = None <=>
         (SourceRate = 0 \/ call.duration_sec = None \/ call.duration_sec = PyInt(0))
    /\ ret[1] # None =>
         /\ ret[1].t = "int"
         /\ IsTruncationOf(ret[1].v, SourceRate * 125 * call.duration_sec.v)

\* a zero total bitrate is skipped for the video bitrate
C17_Witness ==
  /\ NoSizeField
  /\ call.fmt[1].tbr = PyInt(0)
  /\ call.fmt[1].vbr = PyInt(1000)
  /\ call.fmt[1].abr = PyInt(128)
  /\ call.duration_sec = PyInt(180)
  /\ ret[1] = PyInt(22500000)

(* ---------------------------------------------------------------------- *)
(* Specification of the format list parser alone                           *)
(* ---------------------------------------------------------------------- *)
ParseInputLines ==
  ListLines
  \cup {Line("398", SizeTok(10 * Denom, "MiB")),
        Line("251", None),
        Line("1234", SizeTok(Denom, "KiB")),
        Line("399", SizeTok(512 * Denom + 1, "KiB"))}

InitParse ==
  /\ \E text \in SeqsUpTo(ParseInputLines, MaxLines) :
       call = [fn |-> "parse_sizes_from_format_list", text |-> text]
  /\ ret = <<>>
  /\ prev = <<>>
  /\ MainIdle

ParseList ==
  /\ call.fn = "parse_sizes_from_format_list"
  /\ ret = <<>>
  /\ ret' = <<parse_sizes_from_format_list(call.text)>>
  /\ UNCHANGED <<call, prev, mainvars>>

NextParse == ParseList

SpecParse == InitParse /\ [][NextParse]_vars

ParseReturned == call.fn = "parse_sizes_from_format_list" /\ ret # <<>>

KnownIds == {"394", "395", "396", "397", "398", "399", "400", "299", "303", "308",
             "251"}

\* the positions of the lines that begin with the id
LinesOf(id) == {i \in 1..Len(call.text) : call.text[i].id = id}

\* of these, the lines that carry a size token
SizedLinesOf(id) == {i \in LinesOf(id) : call.text[i].size # None}

Last(S) == CHOOSE i \in S : \A j \in S : j <= i

\* the bytes of the size token of line i: number * 1024^n, truncated
BytesOfLine(i) ==
  LET tok == call.text[i].size
      unit == IF tok.t = "KiB" THEN 1024 ELSE 1024 * 1024
  IN PyInt((tok.v * unit) \div Denom)

\* C18 as claimed: the value of a known id is that of the last line that
\* begins with it, unknown when that line carries no size token; ids outside
\* the known set are not in the result.
C18_Claimed_LastLine ==
  ParseReturned =>
    /\ DOMAIN ret[1] = KnownIds
    /\ \A id \in KnownIds :
         ret[1][id] =
           (IF LinesOf(id) = {} THEN None
            ELSE IF call.text[Last(LinesOf(id))].size = None THEN None
            ELSE BytesOfLine(Last(LinesOf(id))))

\* C18 as amended: the value of a known id is that of the last line that
\* begins with it and carries a size token; a line without a size token
\* changes nothing, so that the id is unknown only when no line of it carries
\* a size token; ids outside the known set are not in the result.
C18_LastSizedLine ==
  ParseReturned =>
    /\ DOMAIN ret[1] = KnownIds
    /\ \A id \in KnownIds :
         ret[1][id] =
           (IF SizedLinesOf(id) = {} THEN None
            ELSE BytesOfLine(Last(SizedLinesOf(id))))

\* two sized lines of one id: the later one is reported
C18_Witness ==
  /\ ParseReturned
  /\ Len(call.text) = 2
  /\ SizedLinesOf("398") = {1, 2}
  /\ BytesOfLine(1) # BytesOfLine(2)
  /\ ret[1]["398"] = BytesOfLine(2)

(* ---------------------------------------------------------------------- *)
(* Specification of compute_sizes_from_json_all on container documents     *)
(* ---------------------------------------------------------------------- *)
Video720 ==
  Track("398", "av01", "none", "mp4", PyInt(720), PyInt(30),
        PyInt(40000000), None, None, None, None)
Video1080 ==
  Track("299", "avc1", "none", "mp4", PyInt(1080), PyInt(60),
        None, PyInt(90000000), None, None, None)
Video360 ==
  Track("396", "av01", "none", "mp4", PyInt(360), PyInt(30),
        None, None, PyInt(1000), None, None)

\* the entries of a container: a value that is no object, an object without
\* formats, objects with formats
Entries ==
  {NonDictEntry, Doc(<<>>, PyInt(60)), Doc(<<Video1080>>, PyInt(180)),
   Doc(<<Video360>>, None)}

Container(formats, duration, entries) ==
  [type |-> "dict", truthy |-> TRUE, formats |-> formats, duration |-> duration,
   entries |-> entries]

ContainerDocs ==
  {Container(f, d, e) :
     f \in {<<>>, <<Video720>>}, d \in {None, PyInt(100)},
     e \in {NoEntries} \cup {EntryList(es) : es \in SeqsUpTo(Entries, MaxEntries)}}

InitCompute ==
  /\ \E doc \in ContainerDocs, hint \in {None, PyInt(200)} :
       call = [fn |-> "compute_sizes_from_json_all", meta |-> doc,
               duration_hint |-> hint]
  /\ ret = <<>>
  /\ prev = <<>>
  /\ MainIdle

Compute ==
  /\ call.fn = "compute_sizes_from_json_all"
  /\ ret = <<>>
  /\ ret' = <<compute_sizes_from_json_all(call.meta, call.duration_hint)>>
  /\ UNCHANGED <<call, prev, mainvars>>

NextCompute == Compute

SpecCompute == InitCompute /\ [][NextCompute]_vars

ComputeReturned == call.fn = "compute_sizes_from_json_all" /\ ret # <<>>

\* the document wraps entries: it has an 'entries' list
IsContainer == call.meta.entries.has

EntryAt(i) == call.meta.entries.list[i]

\* the positions of the entries with a non-empty track list
WithTracks ==
  {i \in 1..Len(call.meta.entries.list) :
     EntryAt(i).type = "dict" /\ EntryAt(i).formats # <<>>}

\* what the function returns for document d
ResultFor(d) == ComputeWith(d, DurationOf(d, call.duration_hint))

\* a result with nothing in it
NothingResolved(r) ==
  /\ \A k \in ResKeys : r.sizes[k] = None
  /\ \A k \in VideoKeys : r.video_only[k] = None
  /\ r.a251_b = None

\* C19 as claimed: a container resolves to its first entry with a non-empty
\* track list, else to its first entry, and with no usable entry at all the
\* resolution fails: nothing is resolved from the container's own fields.
C19_Claimed_FailsWithoutEntry ==
  (ComputeReturned /\ IsContainer) =>
    IF WithTracks # {}
    THEN ret[1] = ResultFor(EntryAt(CHOOSE i \in WithTracks : \A j \in WithTracks : i <= j))
    ELSE IF call.meta.entries.list # <<>> /\ EntryAt(1).type = "dict"
    THEN ret[1] = ResultFor(EntryAt(1))
    ELSE NothingResolved(ret[1])

\* C19 as amended: a container resolves to its first entry with a non-empty
\* track list; else to its first entry when that is an object; and when the
\* list is empty or its first entry is no object, the function goes on with
\* the container's own formats and duration.
C19_ContainerResolution ==
  (ComputeReturned /\ IsContainer) =>
    IF WithTracks # {}
    THEN ret[1] = ResultFor(EntryAt(CHOOSE i \in WithTracks : \A j \in WithTracks : i <= j))
    ELSE IF call.meta.entries.list # <<>> /\ EntryAt(1).type = "dict"
    THEN ret[1] = ResultFor(EntryAt(1))
    ELSE ret[1] = ResultFor(call.meta)

\* the second entry is the first with tracks: its tracks and duration are
\* used, not those of the container or of the first entry
C19_Witness ==
  /\ ComputeReturned /\ IsContainer
  /\ call.meta.formats = <<Video720>> /\ call.meta.duration = PyInt(100)
  /\ Len(call.meta.entries.list) = 2
  /\ EntryAt(1) = Doc(<<>>, PyInt(60))
  /\ EntryAt(2) = Doc(<<Video1080>>, PyInt(180))
  /\ ret[1].video_only["v399"] = PyInt(90000000)
  /\ ret[1].duration_sec = PyInt(180)

(* ---------------------------------------------------------------------- *)
(* The calls of one request                                                *)
(* ---------------------------------------------------------------------- *)
\* the place of a mode in the order dump, listing, duration
ModeOrder(mode) ==
  CASE mode = "dump_json" -> 1
    [] mode = "list_formats" -> 2
    [] mode = "get_duration" -> 3

\* C20: within one request yt-dlp is started at most once in each mode, the
\* dump before the listing before the duration query, so that no call is
\* made again, whatever status it returned, a timeout (124) included.
C20_NoRetry ==
  /\ Len(calls) <= 3
  /\ \A i, j \in 1..Len(calls) :
       i < j => ModeOrder(calls[i].mode) < ModeOrder(calls[j].mode)

\* all three calls timed out, each was made once, and the answer was sent
C20_Witness ==
  /\ pc = "done"
  /\ Len(calls) = 3
  /\ \A i \in 1..3 : calls[i].code = PyInt(124)
  /\ Response.ok = FALSE
  /\ Response.error = <<"yt-dlp timed out while fetching data.">>


(* ---------------------------------------------------------------------- *)
(* The audio size of the response                                          *)
(* ---------------------------------------------------------------------- *)
\* the call of the listing, when it was made
Listing ==
  calls[CHOOSE i \in 1..Len(calls) : calls[i].mode = "list_formats"]

\* f_code == 0 and out: the sizes of the response are those of the listing
ListingTaken ==
  /\ Called("list_formats")
  /\ Listing.code = PyInt(0)
  /\ Listing.listed # <<>>

\* what parse_sizes_from_format_list made of the listing
Listed == Listing.listed[1]

\* the document compute_sizes_from_json_all read and the duration it used
StructuredDoc == Unwrap(meta[1])
StructuredDuration == DurationOf(StructuredDoc, duration_hint)

\* the size of the first track 251 of the document: its positive filesize,
\* else its positive filesize_approx, else unknown
Track251Size == size_for(fmt_by_id(StructuredDoc, "251"))

\* the audio size the structured path added to the video-only sizes
SummedAudio ==
  IF Track251Size # None THEN Track251Size
  ELSE _pick_audio(StructuredDoc.formats, StructuredDuration).size

\* the combined size of row r was formed as a video-only size plus the audio
\* size audio
FormedBySum(r, audio) == Response.bytes[r.v] # None /\ audio # None

\* C21 as claimed: in every success response a251 is the audio size the
\* combined sizes were formed with: whenever the combined size of a
\* resolution was formed as a sum, a251 is non-null and the combined size is
\* the video-only size plus a251.
C21_Claimed_SharedAudio ==
  Succeeded =>
    \A audio \in {IF ListingTaken THEN Listed["251"] ELSE SummedAudio} :
      \A r \in Rows :
        FormedBySum(r, audio) =>
          /\ Response.bytes.a251 # None
          /\ Response.bytes[r.s] = Plus(Response.bytes[r.v], Response.bytes.a251)

\* C21 as amended: a251 is the size of track 251 alone (on the textual path,
\* of the listing's line 251).  On the structured path the audio size summed
\* into the combined sizes is a251 when a251 is non-null, and is otherwise the
\* size of the audio-only track _pick_audio selects, which the response does
\* not report: a combined size formed as a sum is the video-only size plus
\* that audio size, hence plus a251 whenever a251 is non-null.  On the
\* textual path every combined size is the video-only size plus a251.
C21_AudioField ==
  Succeeded =>
    IF ListingTaken
    THEN /\ Response.bytes.a251 = Listed["251"]
         /\ \A r \in Rows :
              Response.bytes[r.s] =
                (IF FormedBySum(r, Response.bytes.a251)
                 THEN Plus(Response.bytes[r.v], Response.bytes.a251) ELSE None)
    ELSE \A audio \in {SummedAudio} :
           /\ Response.bytes.a251 = Track251Size
           /\ Response.bytes.a251 # None => audio = Response.bytes.a251
           /\ \A r \in Rows :
                FormedBySum(r, audio) =>
                  Response.bytes[r.s] = Plus(Response.bytes[r.v], audio)

\* a success response whose s720p is v398 plus the size of track 140, while
\* a251 is null
C21_Witness ==
  /\ Succeeded
  /\ ~ListingTaken
  /\ Response.bytes.a251 = None
  /\ SummedAudio = PyInt(5000000)
  /\ Response.bytes.v398 = PyInt(40000000)
  /\ Response.bytes.s720p = PyInt(45000000)

\* a success response of the textual path with a sum
C21_WitnessListed ==
  /\ Succeeded
  /\ ListingTaken
  /\ Response.bytes.a251 # None
  /\ Response.bytes.v398 # None
  /\ Response.bytes.s720p = Plus(Response.bytes.v398, Response.bytes.a251)


(* ---------------------------------------------------------------------- *)
(* The primary and the variant fields of 1080p and 1440p                   *)
(* ---------------------------------------------------------------------- *)
\* both fields of the response are non-null
BothKnown(primary, variant) ==
  Response.bytes[primary] # None /\ Response.bytes[variant] # None

\* C22: in every success response, when s1080p and s1080p_399 are both
\* non-null they are equal, and when s1440p and s1440p_400 are both non-null
\* they are equal, whether the sizes come from the structured document or
\* from the listing.
C22_PrimaryVariant ==
  Succeeded =>
    /\ BothKnown("s1080p", "s1080p_399") =>
         Response.bytes.s1080p = Response.bytes.s1080p_399
    /\ BothKnown("s1440p", "s1440p_400") =>
         Response.bytes.s1440p = Response.bytes.s1440p_400

\* the structured path gave both fields of 1080p and of 1440p, the
\* video-only size being that of a track of another id
C22_Witness ==
  /\ Succeeded
  /\ ~ListingTaken
  /\ ~HasTrack("399") /\ ~HasTrack("400")
  /\ BothKnown("s1080p", "s1080p_399")
  /\ BothKnown("s1440p", "s1440p_400")
  /\ Response.bytes.s1080p = Plus(Response.bytes.v399, Response.bytes.a251)

\* the listing gave both fields of 1080p
C22_WitnessListed ==
  /\ Succeeded
  /\ ListingTaken
  /\ BothKnown("s1080p", "s1080p_399")
  /\ Response.bytes.s1080p = Plus(Listed["399"], Listed["251"])


(* ---------------------------------------------------------------------- *)
(* What the listing does to the sizes of the structured document           *)
(* ---------------------------------------------------------------------- *)
\* the size fields of resp["bytes"]: the combined size, the video-only size
\* it is formed from and the format id of that size
Fields ==
  {[s |-> "s144p", v |-> "v394", fid |-> "394"],
   [s |-> "s240p", v |-> "v395", fid |-> "395"],
   [s |-> "s360p", v |-> "v396", fid |-> "396"],
   [s |-> "s480p", v |-> "v397", fid |-> "397"],
   [s |-> "s720p", v |-> "v398", fid |-> "398"],
   [s |-> "s1080p", v |-> "v399", fid |-> "399"],
   [s |-> "s1440p", v |-> "v400", fid |-> "400"],
   [s |-> "s1080p_299", v |-> "v299", fid |-> "299"],
   [s |-> "s1080p_303", v |-> "v303", fid |-> "303"],
   [s |-> "s1080p_399", v |-> "v399", fid |-> "399"],
   [s |-> "s1440p_308", v |-> "v308", fid |-> "308"],
   [s |-> "s1440p_400", v |-> "v400", fid |-> "400"]}

\* the sum of two sizes, unknown when one of them is
SumOf(a, b) == IF a # None /\ b # None THEN Plus(a, b) ELSE None

\* a251_b as compute_sizes_from_json_all returned it, None when it did not run
StructuredA251 ==
  IF HaveMeta /\ meta[1].type = "dict" THEN Track251Size ELSE None

\* the size fields are those of the parsed listing and of nothing else
FromListing(bytes) ==
  /\ bytes.a251 = Listed["251"]
  /\ \A f \in Fields :
       /\ bytes[f.v] = Listed[f.fid]
       /\ bytes[f.s] = SumOf(Listed[f.fid], Listed["251"])

\* the size fields are those the structured document gave
FromStructured(bytes) ==
  \A audio \in {StructuredA251} :
    /\ bytes.a251 = audio
    /\ \A f \in Fields :
         /\ bytes[f.v] = video_only_by_id[f.v]
         /\ bytes[f.s] = (IF f.s \in ResKeys THEN sizes_by_h[f.s]
                          ELSE SumOf(video_only_by_id[f.v], audio))

\* C23: when the listing was asked for, the size fields main() holds after
\* it, and those of the success response, are all taken from the parsed listing
\* alone when the call returned status 0 and non-empty output, whatever the
\* structured document had given for a video-only, audio or codec-variant
\* size; when the call failed or returned no output they are all as the
\* structured document gave them.
C23_FallbackEffect ==
  /\ pc = "duration" /\ Called("list_formats") =>
       \A bytes \in {BytesOf} :
         IF ListingTaken THEN FromListing(bytes) ELSE FromStructured(bytes)
  /\ Succeeded /\ Called("list_formats") =>
       \A bytes \in {Response.bytes} :
         IF ListingTaken THEN FromListing(bytes) ELSE FromStructured(bytes)

\* the structured document had sized the variant 299 and the audio track
\* 251; the listing was taken and the response carries neither of them
C23_Witness ==
  /\ Succeeded
  /\ ListingTaken
  /\ video_only_by_id["v299"] = PyInt(60000000)
  /\ StructuredA251 = PyInt(5000000)
  /\ Response.bytes.v299 = None
  /\ Response.bytes.a251 # PyInt(5000000)
  /\ Response.bytes.s1080p_299 = None
  /\ Response.bytes.s720p # None

\* the listing returned output with status 1: the variant size of the
\* structured document is what the response carries
C23_WitnessKept ==
  /\ Succeeded
  /\ Called("list_formats")
  /\ Listing.code = PyInt(1) /\ Listing.listed # <<>>
  /\ Response.bytes.v299 = PyInt(60000000)
  /\ Response.bytes.s1080p_299 = PyInt(65000000)
  /\ Response.bytes.v398 = None

\* the listing returned status 0 and empty output
C23_WitnessEmpty ==
  /\ Succeeded
  /\ Called("list_formats")
  /\ Listing.code = PyInt(0) /\ Listing.listed = <<>>
  /\ Response.bytes.s1080p_299 = PyInt(65000000)


(* ---------------------------------------------------------------------- *)
(* The duration lookup and the sizes                                       *)
(* ---------------------------------------------------------------------- *)
\* the duration lookup was made
LookupMade == Called("get_duration")

\* every size main() holds: the locals and what compute_sizes_from_json_all
\* returned
AllSizes == <<s, v, a251, sizes_by_h, video_only_by_id>>

\* C24: the duration lookup, when it is made, is the last call, after the
\* dump and after the listing if there is one. The step that makes it, and
\* every step after it, leaves every size as it was: the duration looked up
\* is used for no estimate. The ok flag of the response that follows says
\* whether one of those sizes is known and its bytes mapping reports them, so
\* that both are the same whatever the lookup returns.
C24_LookupIndependent ==
  /\ [](LookupMade =>
          /\ calls[Len(calls)].mode = "get_duration"
          /\ calls[1].mode = "dump_json" \/ ~is_valid_youtube_url(url)
          /\ pc \in {"respond", "done"})
  /\ [][LookupMade' => UNCHANGED AllSizes]_vars
  /\ [](Answered /\ LookupMade =>
          /\ Response.ok = (\E k \in SNames : s[k] # None)
          /\ Response.ok => Response.bytes = BytesOf)

\* the document has a track 398 with a bitrate and no size, and no duration;
\* the lookup returned 240 seconds and the response has no v398
C24_Witness ==
  /\ Succeeded
  /\ LookupMade
  /\ ~Called("list_formats")
  /\ LookedUp = PyInt(240)
  /\ Response.duration = PyInt(240)
  /\ HasTrack("398")
  /\ FirstTrack("398").tbr = PyInt(2000)
  /\ Len(meta[1].formats) = 2
  /\ Response.bytes.v398 = None
  /\ Response.bytes.s720p = PyInt(20000000)

\* the same with a failed response: the lookup returned 240 seconds, the
\* listing gave nothing, and no size is estimated
C24_WitnessFailed ==
  /\ Failed
  /\ LookupMade
  /\ LookedUp = PyInt(240)
  /\ HaveMeta
  /\ HasTrack("398")
  /\ FirstTrack("398").tbr = PyInt(2000)


(* ---------------------------------------------------------------------- *)
(* Responses per request                                                   *)
(* ---------------------------------------------------------------------- *)
\* read_message() returned a request
RequestRead == req # <<>>

\* main() has ended: by a return after a response, or by an exception that
\* nothing catches
Returned == pc = "done"
Raised == pc = "raised"

NoUrlResponse == [ok |-> FALSE, error |-> <<"No URL provided.">>]

\* C25 as claimed: on every path of main() after a request was read exactly
\* one response is sent, never zero and never two; a request without a url
\* gets the failure 'No URL provided.' and no call of yt-dlp is made; when no
\* request could be read nothing is sent and no call is made.
C25_Claimed_OneResponse ==
  /\ Len(sent) <= 1
  /\ RequestRead /\ (Returned \/ Raised) => Len(sent) = 1
  /\ RequestRead /\ url = "" => sent = <<NoUrlResponse>> /\ calls = <<>>
  /\ ~RequestRead => sent = <<>> /\ calls = <<>>

\* what holds of C25: never two responses; exactly one on every path that
\* ends by a return; the answer to a request without url; silence when no
\* request was read
C25_OnReturn ==
  /\ Len(sent) <= 1
  /\ RequestRead /\ Returned => Len(sent) = 1
  /\ RequestRead /\ url = "" => sent = <<NoUrlResponse>> /\ calls = <<>>
  /\ ~RequestRead => sent = <<>> /\ calls = <<>>

\* a request was read and main() ended by an exception, with no response
C25_RaisedSilent ==
  /\ RequestRead
  /\ Raised
  /\ url = NulUrl
  /\ sent = <<>>

====
